---- MODULE Spec2Model ----
(***************************************************************************)
(* prometheus-aggregator: the registry (universe) of metric families, the  *)
(* three timeseries variants, the scrape rendering and the registry lock.  *)
(*                                                                         *)
(* Strings that the program concatenates or compares (metric names, label  *)
(* names and values, timeseries keys) are sequences of one-character       *)
(* strings; the closed vocabularies (type, help, op, error texts) are      *)
(* plain strings.  A *float64 is a sequence of length 0 (nil) or 1.        *)
(* float64 values are drawn from small integers, a range in which float64  *)
(* addition and comparison are exact.                                      *)
(***************************************************************************)
EXTENDS Integers, Sequences, FiniteSets, TLC

VARIABLES
    collections,  \* universe.collections: metricName -> timeseriesCollection
    mtx,          \* universe.mtx: "free" or the worker holding it
    pc,           \* position of every worker (observers and scrapers)
    cur,          \* observation an observer worker is applying, and its error
    reg,          \* value an observer has loaded for a read-modify-write
    doc,          \* buffer built by a ServeHTTP that is in progress or just done
    last,         \* sequential runs: the last call, its input, error and response
    applied,      \* history: per series, the accepted value-carrying observations
    lockLog,      \* history: observations in lock-acquisition order
    doneLog,      \* history: observations in order of completed observe calls
    nobs,         \* number of observe calls started
    strict,       \* the -strict flag of the process
    main,         \* the process: position of main, its listeners and the run
                  \* group's actors
    conns         \* write transports: per connection or socket, the bytes the
                  \* peer sent, the handler's position and what it handled

vars == <<collections, mtx, pc, cur, reg, doc, last, applied,
          lockLog, doneLog, nobs, strict, main, conns>>

-----------------------------------------------------------------------------
(* Bounds *)

MaxObs == 3       \* observe calls of a sequential run
MaxConcObs == 2   \* observe calls of a concurrent run
MaxLines == 3     \* lines or datagrams a peer sends on one transport
MaxParseLines == 2  \* lines the peer of the decoding specification sends
MaxDecls == 2     \* initial declarations in the declaration file

-----------------------------------------------------------------------------
(* Strings *)

\* the byte value of each character of the alphabet
ByteValues ==
    (" " :> 32) @@ ("\"" :> 34) @@ ("%" :> 37) @@ ("+" :> 43)
    @@ ("," :> 44) @@ ("-" :> 45) @@ ("0" :> 48) @@ ("1" :> 49)
    @@ ("2" :> 50) @@ ("3" :> 51) @@ ("4" :> 52) @@ ("5" :> 53)
    @@ ("6" :> 54) @@ ("7" :> 55) @@ ("8" :> 56) @@ ("9" :> 57)
    @@ (":" :> 58) @@ ("=" :> 61) @@ ("I" :> 73) @@ ("N" :> 78)
    @@ ("[" :> 91) @@ ("]" :> 93) @@ ("_" :> 95) @@ ("a" :> 97)
    @@ ("b" :> 98) @@ ("c" :> 99) @@ ("d" :> 100) @@ ("e" :> 101)
    @@ ("f" :> 102) @@ ("g" :> 103) @@ ("h" :> 104) @@ ("i" :> 105)
    @@ ("k" :> 107) @@ ("l" :> 108) @@ ("m" :> 109) @@ ("n" :> 110)
    @@ ("o" :> 111) @@ ("p" :> 112) @@ ("r" :> 114) @@ ("s" :> 115)
    @@ ("t" :> 116) @@ ("u" :> 117) @@ ("v" :> 118) @@ ("x" :> 120)
    @@ ("y" :> 121) @@ ("{" :> 123) @@ ("}" :> 125)

Ord(c) == ByteValues[c]

\* Go's < on strings: bytewise lexicographic order.
RECURSIVE StrLess(_, _)
StrLess(s, t) ==
    IF t = << >> THEN FALSE
    ELSE IF s = << >> THEN TRUE
    ELSE IF Ord(Head(s)) # Ord(Head(t)) THEN Ord(Head(s)) < Ord(Head(t))
    ELSE StrLess(Tail(s), Tail(t))

\* sort.Slice / sort.Strings over a set of distinct strings.
RECURSIVE SortStrings(_)
SortStrings(S) ==
    IF S = {} THEN << >>
    ELSE LET m == CHOOSE x \in S : \A y \in S : x = y \/ StrLess(x, y)
         IN  <<m>> \o SortStrings(S \ {m})

\* strings.Join
RECURSIVE Join(_, _)
Join(parts, sep) ==
    IF Len(parts) = 0 THEN << >>
    ELSE IF Len(parts) = 1 THEN parts[1]
    ELSE parts[1] \o sep \o Join(Tail(parts), sep)

Digit(d) == CASE d = 0 -> "0" [] d = 1 -> "1" [] d = 2 -> "2" [] d = 3 -> "3"
              [] d = 4 -> "4" [] d = 5 -> "5" [] d = 6 -> "6" [] d = 7 -> "7"
              [] d = 8 -> "8" [] d = 9 -> "9"

RECURSIVE Digits(_)
Digits(n) == IF n < 10 THEN <<Digit(n)>> ELSE Digits(n \div 10) \o <<Digit(n % 10)>>

\* fmt.Sprint of a float64 holding an integer.
Sprint(x) == IF x < 0 THEN <<"-">> \o Digits(-x) ELSE Digits(x)

RECURSIVE Flatten(_)
Flatten(ss) == IF Len(ss) = 0 THEN << >> ELSE Head(ss) \o Flatten(Tail(ss))

-----------------------------------------------------------------------------
(* Labels and keys *)

sortLabelKeys(labels) == SortStrings(DOMAIN labels)

renderLabels(labels) ==
    LET keys  == sortLabelKeys(labels)
        parts == [i \in 1..Len(keys) |->
                    keys[i] \o <<"=", "\"">> \o labels[keys[i]] \o <<"\"">>]
    IN  <<"{">> \o Join(parts, <<",">>) \o <<"}">>

makeTimeseriesKey(name, labels) == name \o <<" ">> \o renderLabels(labels)

-----------------------------------------------------------------------------
(* Observations *)

NilValue == << >>
\* Mutant: a value of zero counts as no value.
HasValueNonZero(o) == o.Value # NilValue /\ o.Value[1] # 0

HasValue(o) == o.Value # NilValue
ValueOf(o) == o.Value[1]

observationMetricName(o) == o.Name
observationTimeseriesKey(o) == makeTimeseriesKey(o.Name, o.Labels)

NoLabels == << >>

-----------------------------------------------------------------------------
(* float64: the finite values are small integers; the infinities and NaN,   *)
(* which strconv.ParseFloat accepts, are three codes outside their range    *)

PosInf == 1000
NegInf == 0 - PosInf
NaN == 2000

\* x + y (IEEE 754: NaN is absorbing, +Inf + -Inf is NaN)
FloatAdd(x, y) ==
    IF x = NaN \/ y = NaN THEN NaN
    ELSE IF x = PosInf THEN (IF y = NegInf THEN NaN ELSE PosInf)
    ELSE IF x = NegInf THEN (IF y = PosInf THEN NaN ELSE NegInf)
    ELSE IF y \in {PosInf, NegInf} THEN y
    ELSE x + y

\* x <= y (false when either is NaN)
FloatLeq(x, y) == x # NaN /\ y # NaN /\ x <= y

-----------------------------------------------------------------------------
(* Timeseries values: counter, gauge, histogram *)

NoErr == "nil"

newCounter(o) ==
    [variant |-> "counter", n |-> o.Name, h |-> o.Help, labels |-> o.Labels,
     touch |-> FALSE, value |-> 0]

newGauge(o) ==
    [variant |-> "gauge", n |-> o.Name, h |-> o.Help, labels |-> o.Labels,
     touch |-> FALSE, value |-> 0]

newHistogram(o) ==
    [variant |-> "histogram", n |-> o.Name, h |-> o.Help, labels |-> o.Labels,
     sum |-> 0, count |-> 0,
     buckets |-> [i \in 1..Len(o.Buckets) |-> [max |-> o.Buckets[i], count |-> 0]]]

NilTimeseriesValue == [variant |-> "nil"]

newTimeseriesValue(typ, o) ==
    IF o.Name = << >>
    THEN [err |-> "a new timeseries value requires a name", v |-> NilTimeseriesValue]
    ELSE CASE typ = "counter"   -> [err |-> NoErr, v |-> newCounter(o)]
           [] typ = "gauge"     -> [err |-> NoErr, v |-> newGauge(o)]
           [] typ = "histogram" -> [err |-> NoErr, v |-> newHistogram(o)]
           [] OTHER -> [err |-> "invalid timeseries type (programmer error)",
                        v |-> NilTimeseriesValue]

\* The assignments of counter.observe, in program order.
counterSetTouch(c) == [c EXCEPT !.touch = TRUE]
counterStore(c, x) == [c EXCEPT !.value = x]

\* Mutant: the touched flag is set before the declaration check.
counterObserveTouchFirst(c, o) ==
    IF ~HasValue(o) THEN counterSetTouch(c)
    ELSE LET c1 == counterSetTouch(c) IN counterStore(c1, FloatAdd(c1.value, ValueOf(o)))

counterObserve(c, o) ==
    IF ~HasValue(o) THEN c
    ELSE LET c1 == counterSetTouch(c) IN counterStore(c1, FloatAdd(c1.value, ValueOf(o)))

\* Mutant: every op adds.
gaugeNewValueAlwaysAdd(old, o) == FloatAdd(old, ValueOf(o))

\* The assignments of gauge.observe, in program order.
gaugeNewValue(old, o) ==
    IF o.Op = "add" THEN FloatAdd(old, ValueOf(o)) ELSE ValueOf(o)
gaugeStore(g, x) == [g EXCEPT !.value = x]
gaugeSetTouch(g) == [g EXCEPT !.touch = TRUE]
gaugeObserve(g, o) ==
    IF ~HasValue(o) THEN g
    ELSE gaugeSetTouch(gaugeStore(g, gaugeNewValue(g.value, o)))

\* The assignments of histogram.observe, in program order.
histogramStoreSum(h, x) == [h EXCEPT !.sum = x]
histogramStoreCount(h, x) == [h EXCEPT !.count = x]
\* Mutant: the bound is exclusive.
histogramBucketFitsStrict(x, b) == x < b.max

histogramBucketFits(x, b) == FloatLeq(x, b.max)
histogramFillBuckets(h, x) ==
    [h EXCEPT !.buckets =
        [i \in 1..Len(h.buckets) |->
            IF histogramBucketFits(x, h.buckets[i])
            THEN [h.buckets[i] EXCEPT !.count = @ + 1]
            ELSE h.buckets[i]]]
histogramObserve(h, o) ==
    IF ~HasValue(o) THEN h
    ELSE LET h1 == histogramStoreSum(h, FloatAdd(h.sum, ValueOf(o)))
             h2 == histogramStoreCount(h1, h1.count + 1)
         IN  histogramFillBuckets(h2, ValueOf(o))

\* timeseriesValue.observe, dispatched on the dynamic type; it never fails.
valueObserve(v, o) ==
    CASE v.variant = "counter"   -> counterObserve(v, o)
      [] v.variant = "gauge"     -> gaugeObserve(v, o)
      [] v.variant = "histogram" -> histogramObserve(v, o)

\* timeseriesValue.touched
valueTouched(v) ==
    CASE v.variant = "counter"   -> v.touch
      [] v.variant = "gauge"     -> v.touch
      [] v.variant = "histogram" -> v.count > 0

-----------------------------------------------------------------------------
(* Timeseries collections and the universe *)

NilCollection == [typ |-> "", help |-> "", buckets |-> << >>, values |-> << >>]

\* Mutant: the help string is not checked.
newTimeseriesCollectionAnyHelp(typ, help, buckets) ==
    IF typ \notin {"counter", "gauge", "histogram"}
    THEN [err |-> "invalid type", c |-> NilCollection]
    ELSE [err |-> NoErr,
          c |-> [typ |-> typ, help |-> help, buckets |-> buckets, values |-> << >>]]

newTimeseriesCollection(typ, help, buckets) ==
    IF typ \notin {"counter", "gauge", "histogram"}
    THEN [err |-> "invalid type", c |-> NilCollection]
    ELSE IF help = ""
    THEN [err |-> "help string cannot be empty", c |-> NilCollection]
    ELSE [err |-> NoErr,
          c |-> [typ |-> typ, help |-> help, buckets |-> buckets, values |-> << >>]]

collectionTouched(c) == \E k \in DOMAIN c.values : valueTouched(c.values[k])

\* Mutant: the observation keeps the kind, help and buckets it arrived with.
firstWriterWinsNot(c, o) == o

\* line 105: first writer wins
firstWriterWins(c, o) ==
    [o EXCEPT !.Type = c.typ, !.Help = c.help, !.Buckets = c.buckets]

\* Mutant: no existence check, every observation stores a new series under its key.
collectionEnsureValueAlways(c, o) ==
    LET k  == observationTimeseriesKey(o)
        nv == newTimeseriesValue(c.typ, o)
    IN  IF nv.err # NoErr
        THEN [err |-> "error creating new timeseries", c |-> c]
        ELSE [err |-> NoErr, c |-> [c EXCEPT !.values = (k :> nv.v) @@ c.values]]

\* lines 106-113: locate or create the series
collectionEnsureValue(c, o) ==
    LET k == observationTimeseriesKey(o)
    IN  IF k \in DOMAIN c.values THEN [err |-> NoErr, c |-> c]
        ELSE LET nv == newTimeseriesValue(c.typ, o)
             IN  IF nv.err # NoErr
                 THEN [err |-> "error creating new timeseries", c |-> c]
                 ELSE [err |-> NoErr,
                       c |-> [c EXCEPT !.values = (k :> nv.v) @@ c.values]]

collectionObserveAll(c, o) ==
    LET o2 == firstWriterWins(c, o)
        r  == collectionEnsureValue(c, o2)
    IN  IF r.err # NoErr THEN r
        ELSE [err |-> NoErr,
              c |-> [r.c EXCEPT !.values =
                        [k \in DOMAIN @ |-> valueObserve(@[k], o2)]]]

collectionObserve(c, o) ==
    LET o2 == firstWriterWins(c, o)
        k  == observationTimeseriesKey(o2)
        r  == collectionEnsureValue(c, o2)
    IN  IF r.err # NoErr THEN r
        ELSE [err |-> NoErr,
              c |-> [r.c EXCEPT !.values[k] = valueObserve(r.c.values[k], o2)]]

\* Mutant: last writer wins, a valid redeclaration replaces the family's metadata.
universeEnsureCollectionOverwrite(cs, o) ==
    LET n  == observationMetricName(o)
        nc == newTimeseriesCollection(o.Type, o.Help, o.Buckets)
    IN  IF n \in DOMAIN cs
        THEN IF nc.err # NoErr THEN [err |-> NoErr, cs |-> cs]
             ELSE [err |-> NoErr,
                   cs |-> [cs EXCEPT ![n] = [nc.c EXCEPT !.values = cs[n].values]]]
        ELSE IF nc.err # NoErr
             THEN [err |-> "error creating new timeseries collection", cs |-> cs]
             ELSE [err |-> NoErr, cs |-> (n :> nc.c) @@ cs]

\* lines 64-71: locate or create the family
universeEnsureCollection(cs, o) ==
    LET n == observationMetricName(o)
    IN  IF n \in DOMAIN cs THEN [err |-> NoErr, cs |-> cs]
        ELSE LET nc == newTimeseriesCollection(o.Type, o.Help, o.Buckets)
             IN  IF nc.err # NoErr
                 THEN [err |-> "error creating new timeseries collection", cs |-> cs]
                 ELSE [err |-> NoErr, cs |-> (n :> nc.c) @@ cs]

\* universe.observe with the lock held from entry to return.
universeObserve(cs, o) ==
    LET n == observationMetricName(o)
        r == universeEnsureCollection(cs, o)
    IN  IF r.err # NoErr THEN r
        ELSE LET r2 == collectionObserve(r.cs[n], o)
             IN  [err |-> r2.err, cs |-> [r.cs EXCEPT ![n] = r2.c]]

\* newUniverse: the initial observations, in order; an error yields no universe.
\* Mutant: a rejected observation is skipped and the loading continues.
RECURSIVE loadInitialSkip(_, _)
loadInitialSkip(cs, initial) ==
    IF Len(initial) = 0 THEN [err |-> NoErr, cs |-> cs]
    ELSE loadInitialSkip(universeObserve(cs, Head(initial)).cs, Tail(initial))

RECURSIVE loadInitial(_, _)
loadInitial(cs, initial) ==
    IF Len(initial) = 0 THEN [err |-> NoErr, cs |-> cs]
    ELSE LET r == universeObserve(cs, Head(initial))
         IN  IF r.err # NoErr
             THEN [err |-> "error loading initial set of observations", cs |-> << >>]
             ELSE loadInitial(r.cs, Tail(initial))

newUniverse(initial) == loadInitial(<< >>, initial)

-----------------------------------------------------------------------------
(* Rendering *)

Line(kind, name, str, labels, num) ==
    [kind |-> kind, name |-> name, str |-> str, labels |-> labels, num |-> num]

\* "%s%s %f\n"
counterRenderText(c) == << Line("f", c.n, "", renderLabels(c.labels), c.value) >>

gaugeRenderText(g) == << Line("f", g.n, "", renderLabels(g.labels), g.value) >>

SumSuffix == <<"_", "s", "u", "m">>
CountSuffix == <<"_", "c", "o", "u", "n", "t">>
BucketSuffix == <<"_", "b", "u", "c", "k", "e", "t">>
LeLabel == <<"l", "e">>
InfLabel == <<"+", "I", "n", "f">>

histogramRenderText(h) ==
    LET labelscopy(x) == (LeLabel :> x) @@ h.labels
    IN  [i \in 1..Len(h.buckets) |->
            Line("d", h.n \o BucketSuffix, "",
                 renderLabels(labelscopy(Sprint(h.buckets[i].max))),
                 h.buckets[i].count)]
        \o << Line("d", h.n \o BucketSuffix, "",
                   renderLabels(labelscopy(InfLabel)), h.count),
              Line("f", h.n \o SumSuffix, "", renderLabels(h.labels), h.sum),
              Line("d", h.n \o CountSuffix, "", renderLabels(h.labels), h.count) >>

valueRenderText(v) ==
    CASE v.variant = "counter"   -> counterRenderText(v)
      [] v.variant = "gauge"     -> gaugeRenderText(v)
      [] v.variant = "histogram" -> histogramRenderText(v)

\* Mutant: the family names are put in descending order.
sortMetricNamesDescending(cs) ==
    LET up == SortStrings(DOMAIN cs)
    IN  [i \in 1..Len(up) |-> up[Len(up) + 1 - i]]

sortMetricNames(cs) == SortStrings(DOMAIN cs)
sortTimeseriesKeys(values) == SortStrings(DOMAIN values)

NoVerb == <<"%", "!", "(", "N", "O", "V", "E", "R", "B", ")">>
Missing == <<"(", "M", "I", "S", "S", "I", "N", "G", ")">>

\* fmt: the flags and the width that may follow a percent sign
RECURSIVE SkipFlags(_)
SkipFlags(s) ==
    IF s # << >> /\ Head(s) \in {"#", "0", "+", "-", " "} THEN SkipFlags(Tail(s)) ELSE s

RECURSIVE SkipWidth(_)
SkipWidth(s) ==
    IF s # << >> /\ Head(s) \in {"0", "1", "2", "3", "4", "5", "6", "7", "8", "9"}
    THEN SkipWidth(Tail(s)) ELSE s

\* fmt.Fprintf(w, format) without operands: text is copied, %% gives a percent
\* sign, any other verb has no operand, a percent sign at the end has no verb.
\* (No argument index, * or precision: [ * and . do not follow % in a format here.)
RECURSIVE doPrintf(_)
doPrintf(format) ==
    IF format = << >> THEN << >>
    ELSE IF Head(format) # "%" THEN <<Head(format)>> \o doPrintf(Tail(format))
    ELSE LET rest == SkipWidth(SkipFlags(Tail(format)))
         IN  IF rest = << >> THEN NoVerb
             ELSE IF Head(rest) = "%" THEN <<"%">> \o doPrintf(Tail(rest))
             ELSE <<"%", "!", Head(rest)>> \o Missing \o doPrintf(Tail(rest))

\* Mutant: the rendered text is written as it is.
FprintfVerbatim(lines) == lines

\* line 154: fmt.Fprintf(&buf, v.renderText()), the rendered text is the format.
\* A line of the document is kept as the text before its first brace, the text
\* from that brace on, and the number.
Fprintf(lines0) ==
  CHOOSE d \in {
    [i \in 1..Len(lines) |->
        LET text == lines[i].name \o lines[i].labels
        IN  IF \A j \in 1..Len(text) : text[j] # "%" THEN lines[i]
            ELSE LET out == doPrintf(text)
                     B   == {j \in 1..Len(out) : out[j] = "{"}
                     b   == IF B = {} THEN Len(out) + 1
                            ELSE CHOOSE j \in B : \A h \in B : j <= h
                 IN  [lines[i] EXCEPT !.name = SubSeq(out, 1, b - 1),
                                      !.labels = SubSeq(out, b, Len(out))]]
    : lines \in {lines0}} : TRUE

\* Mutant: every series of a rendered family is rendered.
renderSeriesAlways(v) == Fprintf(valueRenderText(v))

\* lines 150-154: an untouched series is skipped
renderSeries(v0) ==
    CHOOSE d \in {IF ~valueTouched(v) THEN << >> ELSE Fprintf(valueRenderText(v)) :
                     v \in {v0}} : TRUE

\* Mutant: the family header is written whether or not a series is touched.
renderCollectionAlways(n, c) ==
    LET keys == sortTimeseriesKeys(c.values)
    IN  << Line("HELP", n, c.help, << >>, 0), Line("TYPE", n, c.typ, << >>, 0) >>
        \o Flatten([i \in 1..Len(keys) |-> renderSeries(c.values[keys[i]])])
        \o << Line("blank", << >>, "", << >>, 0) >>

\* lines 142-155: one family of the document
renderCollection(n0, c0) ==
    CHOOSE d \in {
        IF ~collectionTouched(c) THEN << >>
        ELSE << Line("HELP", n, c.help, << >>, 0), Line("TYPE", n, c.typ, << >>, 0) >>
             \o Flatten([i \in 1..Len(keys) |-> renderSeries(c.values[keys[i]])])
             \o << Line("blank", << >>, "", << >>, 0) >>
        : n \in {n0}, c \in {c0}, keys \in {sortTimeseriesKeys(c0.values)}} : TRUE

\* lines 141-156: the buffer built while the lock is held
renderUniverse(cs) ==
    CHOOSE d \in {Flatten([i \in 1..Len(names) |-> renderCollection(names[i], cs[names[i]])]) :
                     names \in {sortMetricNames(cs)}} : TRUE

-----------------------------------------------------------------------------
(* What rendering leaves behind in the registry *)

\* Mutant: no copy is made, the le label is written into the series' own map.
histogramRenderedInPlace(h) == [h EXCEPT !.labels = (LeLabel :> InfLabel) @@ h.labels]

\* histogram.renderText, lines 333-341: le is set in labelscopy, a fresh map;
\* the receiver is read only
histogramRendered(h) == h

\* counter.renderText and gauge.renderText only read the receiver
valueRendered(v) ==
    CASE v.variant = "counter"   -> v
      [] v.variant = "gauge"     -> v
      [] v.variant = "histogram" -> histogramRendered(v)

\* the registry after ServeHTTP lines 141-156: renderText was called on the
\* touched series of the touched families
renderedUniverse(cs) ==
    [n \in DOMAIN cs |->
        IF ~collectionTouched(cs[n]) THEN cs[n]
        ELSE [cs[n] EXCEPT !.values =
                 [k \in DOMAIN cs[n].values |->
                     IF ~valueTouched(cs[n].values[k]) THEN cs[n].values[k]
                     ELSE valueRendered(cs[n].values[k])]]]

-----------------------------------------------------------------------------
(* Workers and inputs *)

Observers == {"w1", "w2"}
Scrapers == {"s1"}
Workers == Observers \cup Scrapers

Names == {<<"a">>, <<"b">>}

LabelSets == {NoLabels, (<<"l">> :> <<"1">>)}

\* type/help/buckets as a structured line may carry them (absent fields are zero values)
ByName == [Type |-> "", Help |-> "", Buckets |-> << >>]

Metas ==
    { ByName,
      [Type |-> "counter",   Help |-> "x", Buckets |-> << >>],
      [Type |-> "gauge",     Help |-> "y", Buckets |-> << >>],
      [Type |-> "histogram", Help |-> "x", Buckets |-> <<1, 2>>],
      [Type |-> "summary",   Help |-> "x", Buckets |-> << >>] }

Ops == {"", "add"}

Observation(n, m, l, op, v) ==
    [Name |-> n, Type |-> m.Type, Help |-> m.Help, Buckets |-> m.Buckets,
     Labels |-> l, Op |-> op, Value |-> v]

Observations(names, metas, labelsets, ops, values) ==
    { Observation(n, m, l, op, v) :
        n \in names, m \in metas, l \in labelsets, op \in ops, v \in values }

\* Inputs of the sequential specification.
RegistryInputs ==
    Observations(Names, Metas, LabelSets, {""}, {NilValue, <<1>>})

NoObservation == Observation(<< >>, ByName, NoLabels, "", NilValue)

SeriesId(o) == <<o.Name, observationTimeseriesKey(o)>>

\* history: the accepted value-carrying observation is appended to its series' log
Record(log, o, err) ==
    IF err # NoErr \/ ~HasValue(o) THEN log
    ELSE LET id   == SeriesId(o)
             prev == IF id \in DOMAIN log THEN log[id] ELSE << >>
         IN  (id :> Append(prev, [op |-> o.Op, v |-> ValueOf(o)])) @@ log

-----------------------------------------------------------------------------
(* Sequential specification: whole calls of observe and ServeHTTP *)

NoCall == [o |-> NoObservation, err |-> NoErr]

\* main after startup with the default flags: both listeners open, the three
\* actors of the run group running, no signal yet
Started ==
    [pc |-> "wait", scheme |-> "tcp", decls |-> << >>,
     socketLn |-> "open", conn |-> "nil", metricsLn |-> "open",
     fwd |-> "accept", serve |-> "serve", sig |-> "select",
     signal |-> FALSE, shutdown |-> 0, cancelled |-> FALSE]

InitProcs ==
    /\ main = Started
    /\ mtx = "free"
    /\ pc = [w \in Workers |-> "idle"]
    /\ cur = [w \in Observers |-> NoCall]
    /\ reg = [w \in Observers |-> 0]
    /\ doc = [s \in Scrapers |-> << >>]
    /\ lockLog = << >>
    /\ doneLog = << >>

\* no write transport: observe is called directly
InitWorkers ==
    /\ InitProcs
    /\ strict = FALSE
    /\ conns = << >>

Init ==
    /\ collections = newUniverse(<< >>).cs
    /\ InitWorkers
    /\ last = [op |-> "new", o |-> NoObservation, err |-> NoErr, doc |-> << >>]
    /\ applied = << >>
    /\ nobs = 0

\* universe.observe, called by one caller at a time (lock taken and released inside).
ObserveCall(o) ==
    /\ nobs < MaxObs
    /\ mtx = "free"
    /\ LET r == universeObserve(collections, o)
       IN  /\ collections' = r.cs
           /\ last' = [op |-> "observe", o |-> o, err |-> r.err, doc |-> << >>]
           /\ applied' = Record(applied, o, r.err)
    /\ nobs' = nobs + 1
    /\ UNCHANGED <<main, strict, conns, mtx, pc, cur, reg, doc, lockLog, doneLog>>

\* universe.ServeHTTP, called with no observe in progress.
ScrapeCall(s) ==
    /\ mtx = "free"
    /\ last.op # "scrape"
    /\ last' = [op |-> "scrape", o |-> NoObservation, err |-> NoErr,
                doc |-> renderUniverse(collections)]
    /\ collections' = renderedUniverse(collections)
    /\ UNCHANGED <<main, strict, conns, mtx, pc, cur, reg, doc, applied, lockLog,
                   doneLog, nobs>>

\* universe.ServeHTTP called again right after a scrape, no observe in between
ScrapeAgain(s) ==
    /\ mtx = "free"
    /\ last.op = "scrape"
    /\ last' = [op |-> "rescrape", o |-> NoObservation, err |-> NoErr,
                doc |-> renderUniverse(collections)]
    /\ collections' = renderedUniverse(collections)
    /\ UNCHANGED <<main, strict, conns, mtx, pc, cur, reg, doc, applied, lockLog,
                   doneLog, nobs>>

Next ==
    \/ \E o \in RegistryInputs : ObserveCall(o)
    \/ \E s \in Scrapers : ScrapeCall(s)
    \/ \E s \in Scrapers : ScrapeAgain(s)

Spec == Init /\ [][Next]_vars

-----------------------------------------------------------------------------
(* Sequential specification of the accumulators: a universe loaded with one *)
(* declared family of each kind, then by-name observations                  *)

CounterName == <<"c">>
GaugeName == <<"g">>
HistogramName == <<"h">>

InitialDeclarations ==
    << Observation(CounterName, [Type |-> "counter", Help |-> "x", Buckets |-> << >>],
                   NoLabels, "", NilValue),
       Observation(GaugeName, [Type |-> "gauge", Help |-> "y", Buckets |-> << >>],
                   NoLabels, "", NilValue),
       Observation(HistogramName,
                   [Type |-> "histogram", Help |-> "x", Buckets |-> <<1, 3>>],
                   NoLabels, "", NilValue) >>

\* by-name observations: a counter may be handed a negative value, a gauge any
\* op, a histogram a value on a bound, between the bounds and above them
ValueInputs ==
    Observations({CounterName}, {ByName}, {NoLabels}, {""}, {<<-1>>, <<1>>, <<2>>})
    \cup Observations({GaugeName}, {ByName}, {NoLabels}, {"", "add", "set"},
                      {<<1>>, <<2>>})
    \cup Observations({HistogramName}, {ByName}, {NoLabels}, {""},
                      {<<1>>, <<2>>, <<4>>})

InitValues ==
    /\ collections = newUniverse(InitialDeclarations).cs
    /\ InitWorkers
    /\ last = [op |-> "new", o |-> NoObservation, err |-> NoErr, doc |-> << >>]
    /\ applied = << >>
    /\ nobs = 0

NextValues ==
    \/ \E o \in ValueInputs : ObserveCall(o)
    \/ \E s \in Scrapers : ScrapeCall(s)

SpecValues == InitValues /\ [][NextValues]_vars

-----------------------------------------------------------------------------
(* Zero-value specification: the declared families receive declarations and *)
(* observations whose value is 0                                            *)

ZeroInputs ==
    Observations({CounterName, HistogramName}, {ByName}, {NoLabels}, {""},
                 {NilValue, <<0>>})
    \cup Observations({GaugeName}, {ByName}, {NoLabels}, {"", "add"}, {NilValue, <<0>>})

NextZero ==
    \/ \E o \in ZeroInputs : ObserveCall(o)
    \/ \E s \in Scrapers : ScrapeCall(s)

SpecZero == InitValues /\ [][NextZero]_vars

-----------------------------------------------------------------------------
(* Unchecked-input specification: observe is called with what it does not  *)
(* check: label values that hold percent signs, quotes, commas and equals   *)
(* signs, and a histogram declared with descending buckets                  *)

PercentLabels ==
    { (<<"l">> :> v) : v \in { <<"1">>, <<"%">>, <<"5", "%">>, <<"%", "d">>,
                              <<"%", "%">> } }

\* {a: 1, b: 2}   and   {a: 1",b="2}
TwoLabels == (<<"a">> :> <<"1">>) @@ (<<"b">> :> <<"2">>)
QuoteLabels == (<<"a">> :> <<"1", "\"", ",", "b", "=", "\"", "2">>)

DescendingName == <<"d">>

UncheckedInputs ==
    Observations({CounterName}, {ByName},
                 PercentLabels \cup {TwoLabels, QuoteLabels}, {""}, {<<1>>})
    \cup Observations({HistogramName}, {ByName}, {NoLabels, TwoLabels}, {""},
                      {<<1>>, <<2>>})
    \cup Observations({DescendingName},
                      {[Type |-> "histogram", Help |-> "x", Buckets |-> <<2, 1>>]},
                      {NoLabels}, {""}, {<<1>>, <<2>>})

NextUnchecked ==
    \/ \E o \in UncheckedInputs : ObserveCall(o)
    \/ \E s \in Scrapers : ScrapeCall(s)

SpecUnchecked == InitValues /\ [][NextUnchecked]_vars

-----------------------------------------------------------------------------
(* Concurrent specification: observers and a scraper, statement by statement, *)
(* over a universe loaded with one declared family of each kind               *)

NewName == <<"a">>

\* by-name observations of the declared families, and one that creates a family
ConcInputs ==
    Observations({CounterName}, {ByName}, {NoLabels}, {""}, {<<1>>, <<2>>})
    \cup Observations({GaugeName}, {ByName}, {NoLabels}, {""}, {<<1>>})
    \cup Observations({GaugeName}, {ByName}, {NoLabels}, {"add"}, {<<2>>})
    \cup Observations({HistogramName}, {ByName}, {NoLabels}, {""}, {<<1>>})
    \cup Observations({NewName}, {[Type |-> "counter", Help |-> "x", Buckets |-> << >>]},
                      {NoLabels}, {""}, {<<1>>})

\* Mutant: Lock returns although the mutex is held.
mayLockAlways(m) == TRUE

\* sync.Mutex: Lock returns only when the mutex is free
observeMayLock(m) == m = "free"
scrapeMayLock(m) == m = "free"

\* Mutant: Unlock leaves the mutex with its holder.
unlockKeeps(m) == m

\* sync.Mutex: Unlock frees the mutex
scrapeUnlock(m) == "free"
observeUnlock(m) == "free"

InitConc ==
    /\ collections = newUniverse(InitialDeclarations).cs
    /\ InitWorkers
    /\ last = [op |-> "new", o |-> NoObservation, err |-> NoErr, doc |-> << >>]
    /\ applied = << >>
    /\ nobs = 0

Goto(w, label) == pc' = [pc EXCEPT ![w] = label]

CurSeries(w) ==
    LET c == collections[cur[w].o.Name]
    IN  c.values[observationTimeseriesKey(firstWriterWins(c, cur[w].o))]

SetCurSeries(w, v) ==
    LET n == cur[w].o.Name
        c == collections[n]
        k == observationTimeseriesKey(firstWriterWins(c, cur[w].o))
    IN  collections' = [collections EXCEPT ![n].values[k] = v]

\* a worker calls universe.observe(o)
ObserveBegin(w, o) ==
    /\ pc[w] = "idle"
    /\ nobs < MaxConcObs
    /\ nobs' = nobs + 1
    /\ cur' = [cur EXCEPT ![w] = [o |-> o, err |-> NoErr]]
    /\ Goto(w, "lock")
    /\ UNCHANGED <<main, strict, conns, collections, mtx, reg, doc, last, applied, lockLog, doneLog>>

\* line 62
ObserveLock(w) ==
    /\ pc[w] = "lock"
    /\ observeMayLock(mtx)
    /\ mtx' = w
    /\ lockLog' = Append(lockLog, [w |-> w, o |-> cur[w].o])
    /\ Goto(w, "family")
    /\ UNCHANGED <<main, strict, conns, collections, cur, reg, doc, last, applied, doneLog, nobs>>

\* lines 64-71
ObserveFamily(w) ==
    /\ pc[w] = "family"
    /\ LET r == universeEnsureCollection(collections, cur[w].o)
       IN  /\ collections' = r.cs
           /\ cur' = [cur EXCEPT ![w].err = r.err]
           /\ Goto(w, IF r.err # NoErr THEN "unlock" ELSE "series")
    /\ UNCHANGED <<main, strict, conns, mtx, reg, doc, last, applied, lockLog, doneLog, nobs>>

\* where the dispatch of timeseriesValue.observe leads
ApplyEntry(v, o) ==
    IF ~HasValue(o) THEN "unlock"
    ELSE CASE v.variant = "counter"   -> "c_touch"
           [] v.variant = "gauge"     -> "g_load"
           [] v.variant = "histogram" -> "h_load"

\* lines 105-113
ObserveSeries(w) ==
    /\ pc[w] = "series"
    /\ LET n  == cur[w].o.Name
           c  == collections[n]
           o2 == firstWriterWins(c, cur[w].o)
           r  == collectionEnsureValue(c, o2)
       IN  /\ collections' = [collections EXCEPT ![n] = r.c]
           /\ cur' = [cur EXCEPT ![w].err = r.err]
           /\ Goto(w, IF r.err # NoErr THEN "unlock"
                      ELSE ApplyEntry(r.c.values[observationTimeseriesKey(o2)], o2))
    /\ UNCHANGED <<main, strict, conns, mtx, reg, doc, last, applied, lockLog, doneLog, nobs>>

\* line 225
CounterTouch(w) ==
    /\ pc[w] = "c_touch"
    /\ SetCurSeries(w, counterSetTouch(CurSeries(w)))
    /\ Goto(w, "c_load")
    /\ UNCHANGED <<main, strict, conns, mtx, cur, reg, doc, last, applied, lockLog, doneLog, nobs>>

\* line 226, the read of c.value
CounterLoad(w) ==
    /\ pc[w] = "c_load"
    /\ reg' = [reg EXCEPT ![w] = CurSeries(w).value]
    /\ Goto(w, "c_store")
    /\ UNCHANGED <<main, strict, conns, collections, mtx, cur, doc, last, applied, lockLog, doneLog, nobs>>

\* line 226, the write of c.value
CounterStore(w) ==
    /\ pc[w] = "c_store"
    /\ SetCurSeries(w, counterStore(CurSeries(w), FloatAdd(reg[w], ValueOf(cur[w].o))))
    /\ reg' = [reg EXCEPT ![w] = 0]
    /\ Goto(w, "unlock")
    /\ UNCHANGED <<main, strict, conns, mtx, cur, doc, last, applied, lockLog, doneLog, nobs>>

\* lines 263-268, the read of g.value
GaugeLoad(w) ==
    /\ pc[w] = "g_load"
    /\ reg' = [reg EXCEPT ![w] = CurSeries(w).value]
    /\ Goto(w, "g_store")
    /\ UNCHANGED <<main, strict, conns, collections, mtx, cur, doc, last, applied, lockLog, doneLog, nobs>>

\* lines 263-268, the write of g.value
GaugeStore(w) ==
    /\ pc[w] = "g_store"
    /\ SetCurSeries(w, gaugeStore(CurSeries(w), gaugeNewValue(reg[w], cur[w].o)))
    /\ reg' = [reg EXCEPT ![w] = 0]
    /\ Goto(w, "g_touch")
    /\ UNCHANGED <<main, strict, conns, mtx, cur, doc, last, applied, lockLog, doneLog, nobs>>

\* line 269
GaugeTouch(w) ==
    /\ pc[w] = "g_touch"
    /\ SetCurSeries(w, gaugeSetTouch(CurSeries(w)))
    /\ Goto(w, "unlock")
    /\ UNCHANGED <<main, strict, conns, mtx, cur, reg, doc, last, applied, lockLog, doneLog, nobs>>

\* line 317, the read of h.sum
HistogramLoad(w) ==
    /\ pc[w] = "h_load"
    /\ reg' = [reg EXCEPT ![w] = CurSeries(w).sum]
    /\ Goto(w, "h_sum")
    /\ UNCHANGED <<main, strict, conns, collections, mtx, cur, doc, last, applied, lockLog, doneLog, nobs>>

\* line 317, the write of h.sum
HistogramSum(w) ==
    /\ pc[w] = "h_sum"
    /\ SetCurSeries(w, histogramStoreSum(CurSeries(w), FloatAdd(reg[w], ValueOf(cur[w].o))))
    /\ reg' = [reg EXCEPT ![w] = 0]
    /\ Goto(w, "h_count")
    /\ UNCHANGED <<main, strict, conns, mtx, cur, doc, last, applied, lockLog, doneLog, nobs>>

\* line 318
HistogramCount(w) ==
    /\ pc[w] = "h_count"
    /\ SetCurSeries(w, histogramStoreCount(CurSeries(w), CurSeries(w).count + 1))
    /\ Goto(w, "h_buckets")
    /\ UNCHANGED <<main, strict, conns, mtx, cur, reg, doc, last, applied, lockLog, doneLog, nobs>>

\* lines 319-323
HistogramBuckets(w) ==
    /\ pc[w] = "h_buckets"
    /\ SetCurSeries(w, histogramFillBuckets(CurSeries(w), ValueOf(cur[w].o)))
    /\ Goto(w, "unlock")
    /\ UNCHANGED <<main, strict, conns, mtx, cur, reg, doc, last, applied, lockLog, doneLog, nobs>>

\* line 63, the deferred Unlock, and the return to the caller
ObserveUnlock(w) ==
    /\ pc[w] = "unlock"
    /\ mtx' = observeUnlock(mtx)
    /\ doneLog' = Append(doneLog, [w |-> w, o |-> cur[w].o, err |-> cur[w].err])
    /\ applied' = Record(applied, cur[w].o, cur[w].err)
    /\ cur' = [cur EXCEPT ![w] = NoCall]
    /\ Goto(w, "idle")
    /\ UNCHANGED <<main, strict, conns, collections, reg, doc, last, lockLog, nobs>>

\* line 140
ScrapeLock(s) ==
    /\ pc[s] = "idle"
    /\ scrapeMayLock(mtx)
    /\ mtx' = s
    /\ Goto(s, "s_render")
    /\ UNCHANGED <<main, strict, conns, collections, cur, reg, doc, last, applied, lockLog, doneLog, nobs>>

\* lines 141-156
ScrapeRender(s) ==
    /\ pc[s] = "s_render"
    /\ doc' = [doc EXCEPT ![s] = renderUniverse(collections)]
    /\ collections' = renderedUniverse(collections)
    /\ Goto(s, "s_unlock")
    /\ UNCHANGED <<main, strict, conns, mtx, cur, reg, last, applied, lockLog, doneLog, nobs>>

\* line 157
ScrapeUnlock(s) ==
    /\ pc[s] = "s_unlock"
    /\ mtx' = scrapeUnlock(mtx)
    /\ Goto(s, "s_write")
    /\ UNCHANGED <<main, strict, conns, collections, cur, reg, doc, last, applied, lockLog, doneLog, nobs>>

\* lines 159-160: the buffer is written to the response
ScrapeWrite(s) ==
    /\ pc[s] = "s_write"
    /\ doc' = [doc EXCEPT ![s] = << >>]
    /\ Goto(s, "idle")
    /\ UNCHANGED <<main, strict, conns, collections, mtx, cur, reg, last, applied, lockLog, doneLog, nobs>>

NextConc ==
    \/ \E w \in Observers, o \in ConcInputs : ObserveBegin(w, o)
    \/ \E w \in Observers : ObserveLock(w)
    \/ \E w \in Observers : ObserveFamily(w)
    \/ \E w \in Observers : ObserveSeries(w)
    \/ \E w \in Observers : CounterTouch(w)
    \/ \E w \in Observers : CounterLoad(w)
    \/ \E w \in Observers : CounterStore(w)
    \/ \E w \in Observers : GaugeLoad(w)
    \/ \E w \in Observers : GaugeStore(w)
    \/ \E w \in Observers : GaugeTouch(w)
    \/ \E w \in Observers : HistogramLoad(w)
    \/ \E w \in Observers : HistogramSum(w)
    \/ \E w \in Observers : HistogramCount(w)
    \/ \E w \in Observers : HistogramBuckets(w)
    \/ \E w \in Observers : ObserveUnlock(w)
    \/ \E s \in Scrapers : ScrapeLock(s)
    \/ \E s \in Scrapers : ScrapeRender(s)
    \/ \E s \in Scrapers : ScrapeUnlock(s)
    \/ \E s \in Scrapers : ScrapeWrite(s)

SpecConc == InitConc /\ [][NextConc]_vars

(* Lock specification: the statement-level steps under fair scheduling,     *)
(* with observations that are accepted and observations that are refused    *)

\* accepted values of the three kinds; a family that is unknown and comes
\* without a type is refused at line 68
LockInputs ==
    Observations({CounterName, GaugeName, HistogramName}, {ByName}, {NoLabels},
                 {""}, {<<1>>})
    \cup Observations({NewName}, {ByName}, {NoLabels}, {""}, {<<1>>})

\* the steps of universe.observe after the call, Lock included
ObserverStep(w) ==
    \/ ObserveLock(w)
    \/ ObserveFamily(w)
    \/ ObserveSeries(w)
    \/ CounterTouch(w)
    \/ CounterLoad(w)
    \/ CounterStore(w)
    \/ GaugeLoad(w)
    \/ GaugeStore(w)
    \/ GaugeTouch(w)
    \/ HistogramLoad(w)
    \/ HistogramSum(w)
    \/ HistogramCount(w)
    \/ HistogramBuckets(w)
    \/ ObserveUnlock(w)

\* the steps of ServeHTTP after Lock
ScraperStep(s) ==
    \/ ScrapeRender(s)
    \/ ScrapeUnlock(s)
    \/ ScrapeWrite(s)

NextLock ==
    \/ \E w \in Observers, o \in LockInputs : ObserveBegin(w, o)
    \/ \E w \in Observers : ObserverStep(w)
    \/ \E s \in Scrapers : ScrapeLock(s)
    \/ \E s \in Scrapers : ScraperStep(s)

\* The Go scheduler runs every runnable goroutine: a call that can take its
\* next statement takes it.  sync.Mutex hands the mutex to a goroutine that
\* has waited for it (starvation mode), so Lock is strongly fair.  Calls
\* and scrapes arrive as their senders please.
FairLock ==
    /\ \A w \in Observers : WF_vars(ObserverStep(w)) /\ SF_vars(ObserveLock(w))
    /\ \A s \in Scrapers : WF_vars(ScraperStep(s))

SpecLock == InitConc /\ [][NextLock]_vars /\ FairLock

-----------------------------------------------------------------------------
(* Lines: bytes are sequences of one-character strings.  Lines are drawn    *)
(* from an alphabet of lower-case letters, digits, sign, space, tab and the *)
(* punctuation of the two wire formats; there is no decimal point, no       *)
(* exponent, no backslash and no JSON literal (null, true, false) in it.    *)

\* string(bytes), for the fields whose values are a closed vocabulary
RECURSIVE Text(_)
Text(s) == IF s = << >> THEN "" ELSE Head(s) \o Text(Tail(s))

\* unicode.IsSpace / the JSON whitespace, on the alphabet
IsSpace(c) == c \in {" ", "\t", "\n", "\r"}

RECURSIVE TrimLeft(_)
TrimLeft(p) == IF p # << >> /\ IsSpace(Head(p)) THEN TrimLeft(Tail(p)) ELSE p

RECURSIVE TrimRight(_)
TrimRight(p) ==
    IF p # << >> /\ IsSpace(p[Len(p)]) THEN TrimRight(SubSeq(p, 1, Len(p) - 1)) ELSE p

\* bytes.TrimSpace
TrimSpace(p) == TrimRight(TrimLeft(p))

\* bytes.IndexByte and bytes.LastIndexByte: 0-based, -1 when absent
IndexByte(p, c) ==
    LET S == {i \in 1..Len(p) : p[i] = c}
    IN  IF S = {} THEN -1 ELSE (CHOOSE i \in S : \A j \in S : i <= j) - 1

LastIndexByte(p, c) ==
    LET S == {i \in 1..Len(p) : p[i] = c}
    IN  IF S = {} THEN -1 ELSE (CHOOSE i \in S : \A j \in S : j <= i) - 1

\* bytes.Split(p, sep) for a one-byte separator
RECURSIVE Split(_, _)
Split(p, c) ==
    LET i == IndexByte(p, c)
    IN  IF i < 0 THEN <<p>>
        ELSE <<SubSeq(p, 1, i)>> \o Split(SubSeq(p, i + 2, Len(p)), c)

IsDigit(c) == c \in {"0", "1", "2", "3", "4", "5", "6", "7", "8", "9"}

DigitValue(c) == Ord(c) - Ord("0")

RECURSIVE Atoi(_)
Atoi(ds) ==
    IF ds = << >> THEN 0
    ELSE Atoi(SubSeq(ds, 1, Len(ds) - 1)) * 10 + DigitValue(ds[Len(ds)])

\* strconv.ParseFloat(s, 64) on the alphabet: a signed run of digits, or one of
\* the special tokens (an optional sign and inf or infinity; nan without a sign)
ParseFloat(s) ==
    LET signed == s # << >> /\ Head(s) \in {"+", "-"}
        neg    == s # << >> /\ Head(s) = "-"
        body   == IF signed THEN Tail(s) ELSE s
    IN  IF body # << >> /\ \A i \in 1..Len(body) : IsDigit(body[i])
        THEN [err |-> NoErr, v |-> IF neg THEN 0 - Atoi(body) ELSE Atoi(body)]
        ELSE IF Text(body) \in {"inf", "Inf", "infinity", "Infinity"}
        THEN [err |-> NoErr, v |-> IF neg THEN NegInf ELSE PosInf]
        ELSE IF Text(s) \in {"nan", "NaN"}
        THEN [err |-> NoErr, v |-> NaN]
        ELSE [err |-> "invalid syntax", v |-> 0]

\* a run-time panic of the decoding goroutine (index or slice bounds out of range)
Panic == "panic"

ParseError(e) == [err |-> e, o |-> NoObservation]

\* Mutant: only the first label pair of the list is kept.
prometheusLabelmapFirstPair(pairs, labelmap) ==
    IF pairs = << >> THEN [err |-> NoErr, m |-> labelmap]
    ELSE LET pair == Head(pairs)
             z    == IndexByte(pair, "=")
             k    == SubSeq(pair, 1, z)
             v    == SubSeq(pair, z + 2, Len(pair))
         IN  IF z < 0 THEN [err |-> NoErr, m |-> labelmap]
             ELSE IF v = << >> THEN [err |-> Panic, m |-> labelmap]
             ELSE IF v[1] # "\"" \/ v[Len(v)] # "\""
             THEN [err |-> "bad format: label value must be wrapped in quotes",
                   m |-> labelmap]
             ELSE IF Len(v) = 1 THEN [err |-> Panic, m |-> labelmap]
             ELSE [err |-> NoErr, m |-> (k :> SubSeq(v, 2, Len(v) - 1)) @@ labelmap]

\* Mutant: the quotes are left around the label value.
RECURSIVE prometheusLabelmapKeepQuotes(_, _)
prometheusLabelmapKeepQuotes(pairs, labelmap) ==
    IF pairs = << >> THEN [err |-> NoErr, m |-> labelmap]
    ELSE LET pair == Head(pairs)
             z    == IndexByte(pair, "=")
         IN  IF z < 0 THEN prometheusLabelmapKeepQuotes(Tail(pairs), labelmap)
             ELSE LET k == SubSeq(pair, 1, z)
                      v == SubSeq(pair, z + 2, Len(pair))
                  IN  IF v = << >> THEN [err |-> Panic, m |-> labelmap]
                      ELSE IF v[1] # "\"" \/ v[Len(v)] # "\""
                      THEN [err |-> "bad format: label value must be wrapped in quotes",
                            m |-> labelmap]
                      ELSE prometheusLabelmapKeepQuotes(Tail(pairs), (k :> v) @@ labelmap)

\* lines 124-136: the label pairs, in the order given; a later pair replaces an
\* earlier one with the same name
RECURSIVE prometheusLabelmap(_, _)
prometheusLabelmap(pairs, labelmap) ==
    IF pairs = << >> THEN [err |-> NoErr, m |-> labelmap]
    ELSE LET pair == Head(pairs)
             z    == IndexByte(pair, "=")
         IN  IF z < 0 THEN prometheusLabelmap(Tail(pairs), labelmap)
             ELSE LET k == SubSeq(pair, 1, z)
                      v == SubSeq(pair, z + 2, Len(pair))
                  IN  IF v = << >> THEN [err |-> Panic, m |-> labelmap]
                      ELSE IF v[1] # "\"" \/ v[Len(v)] # "\""
                      THEN [err |-> "bad format: label value must be wrapped in quotes",
                            m |-> labelmap]
                      ELSE IF Len(v) = 1 THEN [err |-> Panic, m |-> labelmap]
                      ELSE prometheusLabelmap(Tail(pairs),
                               (k :> SubSeq(v, 2, Len(v) - 1)) @@ labelmap)

\* Mutant: the name is stored as soon as it is cut from the identifier.
prometheusUnmarshalNameFirst(p0, o) ==
    LET p == TrimSpace(p0)
        x == LastIndexByte(p, " ")
        Fail(e, obs) == [err |-> e, o |-> obs]
    IN  IF x < 1 THEN Fail("bad format: couldn't find space", o)
        ELSE
        LET id  == TrimSpace(SubSeq(p, 1, x))
            val == TrimSpace(SubSeq(p, x + 2, Len(p)))
            f   == ParseFloat(val)
            y   == IndexByte(id, "{")
        IN  IF f.err # NoErr THEN Fail("bad value", o)
            ELSE IF y < 0 THEN Fail("bad format: couldn't find opening brace", o)
            ELSE IF id[Len(id)] # "}"
            THEN Fail("bad format: couldn't find terminating brace", o)
            ELSE
            LET name   == SubSeq(id, 1, y)
                labels == SubSeq(id, y + 2, Len(id) - 1)
                lm     == prometheusLabelmap(Split(labels, ","), << >>)
                o1     == [o EXCEPT !.Name = name]
            IN  IF \E i \in 1..Len(labels) : labels[i] = " "
                THEN Fail("bad format: ", o1)
                ELSE IF lm.err # NoErr THEN Fail(lm.err, o1)
                ELSE [err |-> NoErr,
                      o |-> [o1 EXCEPT !.Name = name, !.Labels = lm.m,
                                       !.Value = <<f.v>>]]

\* lines 97-144: o is the observation the caller passes by pointer; it is
\* written at lines 138-141, after the last return of an error
prometheusUnmarshal(p0, o) ==
    LET p == TrimSpace(p0)
        x == LastIndexByte(p, " ")
        Fail(e, obs) == [err |-> e, o |-> obs]
    IN  IF x < 1 THEN Fail("bad format: couldn't find space", o)
        ELSE
        LET id  == TrimSpace(SubSeq(p, 1, x))
            val == TrimSpace(SubSeq(p, x + 2, Len(p)))
            f   == ParseFloat(val)
            y   == IndexByte(id, "{")
        IN  IF f.err # NoErr THEN Fail("bad value", o)
            ELSE IF y < 0 THEN Fail("bad format: couldn't find opening brace", o)
            ELSE IF id[Len(id)] # "}"
            THEN Fail("bad format: couldn't find terminating brace", o)
            ELSE
            LET name   == SubSeq(id, 1, y)
                labels == SubSeq(id, y + 2, Len(id) - 1)
                lm     == prometheusLabelmap(Split(labels, ","), << >>)
                o1     == o
            IN  IF \E i \in 1..Len(labels) : labels[i] = " "
                THEN Fail("bad format: ", o1)
                ELSE IF lm.err # NoErr THEN Fail(lm.err, o1)
                ELSE [err |-> NoErr,
                      o |-> [o1 EXCEPT !.Name = name, !.Labels = lm.m,
                                       !.Value = <<f.v>>]]

\* encoding/json: the scanner and the decoder on the alphabet
RECURSIVE jsonSkip(_, _)
jsonSkip(p, i) == IF i <= Len(p) /\ IsSpace(p[i]) THEN jsonSkip(p, i + 1) ELSE i

JsonFail == [ok |-> FALSE, i |-> 0, v |-> [t |-> "none"]]

jsonString(p, i) ==
    LET S == {j \in (i + 1)..Len(p) : p[j] = "\""}
    IN  IF S = {} THEN JsonFail
        ELSE LET j == CHOOSE j \in S : \A m \in S : j <= m
             IN  [ok |-> TRUE, i |-> j + 1,
                  v |-> [t |-> "str", s |-> SubSeq(p, i + 1, j - 1)]]

RECURSIVE jsonDigitsEnd(_, _)
jsonDigitsEnd(p, i) ==
    IF i <= Len(p) /\ IsDigit(p[i]) THEN jsonDigitsEnd(p, i + 1) ELSE i

jsonNumber(p, i) ==
    LET neg == p[i] = "-"
        b   == IF neg THEN i + 1 ELSE i
        e   == jsonDigitsEnd(p, b)
    IN  IF e = b \/ (p[b] = "0" /\ e > b + 1) THEN JsonFail
        ELSE [ok |-> TRUE, i |-> e,
              v |-> [t |-> "num",
                     n |-> IF neg THEN 0 - Atoi(SubSeq(p, b, e - 1))
                           ELSE Atoi(SubSeq(p, b, e - 1))]]

RECURSIVE jsonValue(_, _)
RECURSIVE jsonMembers(_, _, _)
RECURSIVE jsonElements(_, _, _)

jsonValue(p, i) ==
    IF i > Len(p) THEN JsonFail
    ELSE IF p[i] = "\"" THEN jsonString(p, i)
    ELSE IF p[i] = "-" \/ IsDigit(p[i]) THEN jsonNumber(p, i)
    ELSE IF p[i] = "{"
    THEN LET j == jsonSkip(p, i + 1)
         IN  IF j <= Len(p) /\ p[j] = "}"
             THEN [ok |-> TRUE, i |-> j + 1, v |-> [t |-> "obj", m |-> << >>]]
             ELSE jsonMembers(p, j, << >>)
    ELSE IF p[i] = "["
    THEN LET j == jsonSkip(p, i + 1)
         IN  IF j <= Len(p) /\ p[j] = "]"
             THEN [ok |-> TRUE, i |-> j + 1, v |-> [t |-> "arr", a |-> << >>]]
             ELSE jsonElements(p, j, << >>)
    ELSE JsonFail

jsonMembers(p, i, acc) ==
    IF i > Len(p) \/ p[i] # "\"" THEN JsonFail
    ELSE
    LET k == jsonString(p, i)
        c == jsonSkip(p, k.i)
        v == jsonValue(p, jsonSkip(p, c + 1))
        e == jsonSkip(p, v.i)
        acc2 == Append(acc, [k |-> k.v.s, v |-> v.v])
    IN  IF ~k.ok THEN JsonFail
        ELSE IF c > Len(p) \/ p[c] # ":" THEN JsonFail
        ELSE IF ~v.ok THEN JsonFail
        ELSE IF e > Len(p) THEN JsonFail
        ELSE IF p[e] = "}"
        THEN [ok |-> TRUE, i |-> e + 1, v |-> [t |-> "obj", m |-> acc2]]
        ELSE IF p[e] = "," THEN jsonMembers(p, jsonSkip(p, e + 1), acc2)
        ELSE JsonFail

jsonElements(p, i, acc) ==
    LET v == jsonValue(p, i)
        e == jsonSkip(p, v.i)
        acc2 == Append(acc, v.v)
    IN  IF ~v.ok THEN JsonFail
        ELSE IF e > Len(p) THEN JsonFail
        ELSE IF p[e] = "]"
        THEN [ok |-> TRUE, i |-> e + 1, v |-> [t |-> "arr", a |-> acc2]]
        ELSE IF p[e] = "," THEN jsonElements(p, jsonSkip(p, e + 1), acc2)
        ELSE JsonFail

\* a JSON object decoded into a map[string]string; a repeated key keeps the last
RECURSIVE jsonStringMap(_, _)
jsonStringMap(members, acc) ==
    IF members = << >> THEN acc
    ELSE jsonStringMap(Tail(members), (Head(members).k :> Head(members).v.s) @@ acc)

TypeError == "json: cannot unmarshal into Go struct field"

\* one member of the top-level object, decoded into the field its tag names
jsonField(o, k, v) ==
    LET key == Text(k)
    IN  IF key = "name"
        THEN IF v.t = "str" THEN [err |-> NoErr, o |-> [o EXCEPT !.Name = v.s]]
             ELSE ParseError(TypeError)
        ELSE IF key = "type"
        THEN IF v.t = "str" THEN [err |-> NoErr, o |-> [o EXCEPT !.Type = Text(v.s)]]
             ELSE ParseError(TypeError)
        ELSE IF key = "help"
        THEN IF v.t = "str" THEN [err |-> NoErr, o |-> [o EXCEPT !.Help = Text(v.s)]]
             ELSE ParseError(TypeError)
        ELSE IF key = "op"
        THEN IF v.t = "str" THEN [err |-> NoErr, o |-> [o EXCEPT !.Op = Text(v.s)]]
             ELSE ParseError(TypeError)
        ELSE IF key = "value"
        THEN IF v.t = "num" THEN [err |-> NoErr, o |-> [o EXCEPT !.Value = <<v.n>>]]
             ELSE ParseError(TypeError)
        ELSE IF key = "buckets"
        THEN IF v.t = "arr" /\ \A i \in 1..Len(v.a) : v.a[i].t = "num"
             THEN [err |-> NoErr,
                   o |-> [o EXCEPT !.Buckets = [i \in 1..Len(v.a) |-> v.a[i].n]]]
             ELSE ParseError(TypeError)
        ELSE IF key = "labels"
        THEN IF v.t = "obj" /\ \A i \in 1..Len(v.m) : v.m[i].v.t = "str"
             THEN [err |-> NoErr,
                   o |-> [o EXCEPT !.Labels = jsonStringMap(v.m, << >>)]]
             ELSE ParseError(TypeError)
        ELSE [err |-> NoErr, o |-> o]

RECURSIVE jsonDecode(_, _)
jsonDecode(members, o) ==
    IF members = << >> THEN [err |-> NoErr, o |-> o]
    ELSE LET r == jsonField(o, Head(members).k, Head(members).v)
         IN  IF r.err # NoErr THEN r ELSE jsonDecode(Tail(members), r.o)

\* json.Unmarshal(p, &o) into a zero observation
jsonUnmarshal(p) ==
    LET v == jsonValue(p, jsonSkip(p, 1))
    IN  IF ~v.ok THEN ParseError("json: syntax error")
        ELSE IF jsonSkip(p, v.i) <= Len(p)
        THEN ParseError("json: invalid character after top-level value")
        ELSE IF v.v.t # "obj" THEN ParseError(TypeError)
        ELSE jsonDecode(v.v.m, NoObservation)

parseLine(p) ==
    IF Len(p) <= 0 THEN ParseError("invalid (empty) line")
    ELSE IF p[1] = "{" THEN jsonUnmarshal(p)
    ELSE prometheusUnmarshal(p, NoObservation)

\* Mutant: a rejected line leaves an emptied registry behind.
handleLineResetOnError(cs, line) ==
    LET r == parseLine(line)
        u == universeObserve(cs, r.o)
    IN  IF r.err = Panic THEN [err |-> Panic, name |-> << >>, cs |-> << >>]
        ELSE IF r.err # NoErr THEN [err |-> "parse error", name |-> << >>, cs |-> << >>]
        ELSE IF u.err # NoErr
        THEN [err |-> "observation error", name |-> r.o.Name, cs |-> << >>]
        ELSE [err |-> NoErr, name |-> r.o.Name, cs |-> u.cs]

\* handleLine against the registry cs: the error, the name and the registry after
\* (the line is parsed once and the observation is applied once: r and u are
\* bound to the values, not to the expressions)
handleLine(cs, line) ==
    LET observed(r, u) ==
            IF u.err # NoErr
            THEN [err |-> "observation error", name |-> r.o.Name, cs |-> u.cs]
            ELSE [err |-> NoErr, name |-> r.o.Name, cs |-> u.cs]
        parsed(r) ==
            IF r.err = Panic THEN [err |-> Panic, name |-> << >>, cs |-> cs]
            ELSE IF r.err # NoErr
            THEN [err |-> "parse error", name |-> << >>, cs |-> cs]
            ELSE CHOOSE h \in {observed(r, u) : u \in {universeObserve(cs, r.o)}} : TRUE
    IN  CHOOSE h \in {parsed(r) : r \in {parseLine(line)}} : TRUE

-----------------------------------------------------------------------------
(* What a client writes on a write transport *)

Quoted(s) == <<"\"">> \o s \o <<"\"">>
Member(k, v) == Quoted(k) \o <<":">> \o v
StructuredLine(members) == <<"{">> \o Join(members, <<",">>) \o <<"}">>
LabelPair(k, v) == k \o <<"=">> \o Quoted(v)
TextualLine(name, pairs, val) ==
    name \o <<"{">> \o Join(pairs, <<",">>) \o <<"}", " ">> \o val

NameKey == <<"n", "a", "m", "e">>
TypeKey == <<"t", "y", "p", "e">>
HelpKey == <<"h", "e", "l", "p">>
LabelsKey == <<"l", "a", "b", "e", "l", "s">>
ValueKey == <<"v", "a", "l", "u", "e">>
CounterWord == <<"c", "o", "u", "n", "t", "e", "r">>

\* {"name":"a","type":"counter","help":"x","labels":{"l":"1"},"value":1}
DeclaringLine ==
    StructuredLine(<< Member(NameKey, Quoted(<<"a">>)),
                      Member(TypeKey, Quoted(CounterWord)),
                      Member(HelpKey, Quoted(<<"x">>)),
                      Member(LabelsKey, StructuredLine(<<Member(<<"l">>, Quoted(<<"1">>))>>)),
                      Member(ValueKey, <<"1">>) >>)

\* {"name":"a","labels":{"l":"1"},"value":2}
ByNameLine ==
    StructuredLine(<< Member(NameKey, Quoted(<<"a">>)),
                      Member(LabelsKey, StructuredLine(<<Member(<<"l">>, Quoted(<<"1">>))>>)),
                      Member(ValueKey, <<"2">>) >>)

\* a{l="1"} 4
TextLine == TextualLine(<<"a">>, <<LabelPair(<<"l">>, <<"1">>)>>, <<"4">>)

\* b{} 1
OtherFamilyLine == TextualLine(<<"b">>, << >>, <<"1">>)

\* a 1
NoBraceLine == <<"a", " ", "1">>

\* {"name":"b","type":"counter"}
NoHelpLine ==
    StructuredLine(<< Member(NameKey, Quoted(<<"b">>)),
                      Member(TypeKey, Quoted(CounterWord)) >>)

StreamLines ==
    {DeclaringLine, ByNameLine, TextLine, OtherFamilyLine, NoHelpLine, NoBraceLine}

SeqsUpTo(S, n) == UNION {[1..m -> S] : m \in 0..n}

-----------------------------------------------------------------------------
(* Transport specification: one write transport (a stream connection or a   *)
(* packet socket) feeding an empty universe, one loop iteration per step,   *)
(* and scrapes between the iterations                                        *)

StreamConns == {"k1"}
PacketConns == {"p1"}

\* a transport whose peer sent the given lines (stream) or datagrams (packet)
NewConn(kind, input) ==
    [kind |-> kind, pc |-> "scan", sent |-> input, input |-> input,
     log |-> << >>, end |-> ""]

\* Mutant: the handler continues after a rejected line whatever the flag.
connAfterRejectContinue(flag) == "scan"

\* Mutant: the handler returns after a rejected line whatever the flag.
connAfterRejectReturn(flag) == "closed"

\* lines 64-69: after a rejected line the handler returns in strict mode
connAfterReject(flag) == IF flag THEN "closed" ELSE "scan"

\* Mutant: the receive loop honours the strict flag.
packetAfterRejectStrict(flag) == IF flag THEN "closed" ELSE "scan"

\* lines 41-43: after a rejected datagram the loop continues
packetAfterReject(flag) == "scan"

InitStream ==
    /\ collections = newUniverse(<< >>).cs
    /\ InitProcs
    /\ strict \in BOOLEAN
    /\ \E input \in SeqsUpTo(StreamLines, MaxLines) :
          \/ \E k \in StreamConns : conns = (k :> NewConn("stream", input))
          \/ \E k \in PacketConns : conns = (k :> NewConn("packet", input))
    /\ last = [op |-> "new", o |-> NoObservation, err |-> NoErr, doc |-> << >>]
    /\ applied = << >>
    /\ nobs = 0

\* handleConn and forwardPacketConn have no recover: a panic in one goroutine
\* ends the process, and with it every other goroutine
Crashed == \E k \in DOMAIN conns : conns[k].pc = "panic"

Handled(k, line, err, next, end) ==
    [conns EXCEPT ![k].input = Tail(@),
                  ![k].log = Append(@, [line |-> line, err |-> err]),
                  ![k].pc = IF err = Panic THEN "panic" ELSE next,
                  ![k].end = IF err = Panic THEN "panic" ELSE end]

\* bufio.NewScanner: the buffer grows to MaxScanTokenSize bytes and must hold
\* the line and its newline; a longer line ends the scan with ErrTooLong
MaxScanTokenSize == 65536

ScanFits(line) == Len(line) < MaxScanTokenSize

\* handleConn, one iteration of lines 62-72: s.Scan() returned a line
ConnLine(k) ==
    /\ k \in DOMAIN conns
    /\ ~Crashed
    /\ conns[k].kind = "stream"
    /\ conns[k].pc = "scan"
    /\ conns[k].input # << >>
    /\ ScanFits(Head(conns[k].input))
    /\ mtx = "free"
    /\ \E r \in {handleLine(collections, Head(conns[k].input))} :
          LET line == Head(conns[k].input)
              next == IF r.err # NoErr THEN connAfterReject(strict) ELSE "scan"
          IN  /\ collections' = r.cs
              /\ conns' = Handled(k, line, r.err, next,
                                  IF next = "closed" THEN "strict" ELSE "")
              /\ last' = [op |-> "line", o |-> NoObservation, err |-> r.err,
                          doc |-> << >>]
    /\ UNCHANGED <<main, strict, mtx, pc, cur, reg, doc, applied, lockLog, doneLog, nobs>>

\* handleConn, line 62 and the deferred Close of line 60: s.Scan() returned false
ConnEOF(k) ==
    /\ k \in DOMAIN conns
    /\ ~Crashed
    /\ conns[k].kind = "stream"
    /\ conns[k].pc = "scan"
    /\ IF conns[k].input = << >> THEN TRUE
       ELSE ~ScanFits(Head(conns[k].input))
    /\ conns' = [conns EXCEPT ![k].pc = "closed",
                              ![k].end = IF conns[k].input = << >> THEN "eof"
                                         ELSE "too long"]
    /\ last' = [op |-> "eof", o |-> NoObservation, err |-> NoErr, doc |-> << >>]
    /\ UNCHANGED <<main, strict, collections, mtx, pc, cur, reg, doc, applied, lockLog,
                   doneLog, nobs>>

\* forwardPacketConn, one iteration of lines 35-46: ReadFrom returned a datagram
PacketLine(k) ==
    /\ k \in DOMAIN conns
    /\ ~Crashed
    /\ conns[k].kind = "packet"
    /\ conns[k].pc = "scan"
    /\ conns[k].input # << >>
    /\ mtx = "free"
    /\ \E r \in {handleLine(collections, Head(conns[k].input))} :
          LET line == Head(conns[k].input)
              next == IF r.err # NoErr THEN packetAfterReject(strict) ELSE "scan"
          IN  /\ collections' = r.cs
              /\ conns' = Handled(k, line, r.err, next,
                                  IF next = "closed" THEN "strict" ELSE "")
              /\ last' = [op |-> "line", o |-> NoObservation, err |-> r.err,
                          doc |-> << >>]
    /\ UNCHANGED <<main, strict, mtx, pc, cur, reg, doc, applied, lockLog, doneLog, nobs>>

\* forwardPacketConn, lines 36-39: ReadFrom failed (the socket was closed)
PacketFail(k) ==
    /\ k \in DOMAIN conns
    /\ ~Crashed
    /\ conns[k].kind = "packet"
    /\ conns[k].pc = "scan"
    /\ conns' = [conns EXCEPT ![k].pc = "closed", ![k].end = "readerr"]
    /\ last' = [op |-> "eof", o |-> NoObservation, err |-> NoErr, doc |-> << >>]
    /\ UNCHANGED <<main, strict, collections, mtx, pc, cur, reg, doc, applied, lockLog,
                   doneLog, nobs>>

NextStream ==
    \/ \E k \in StreamConns : ConnLine(k)
    \/ \E k \in StreamConns : ConnEOF(k)
    \/ \E k \in PacketConns : PacketLine(k)
    \/ \E k \in PacketConns : PacketFail(k)
    \/ \E s \in Scrapers : ScrapeCall(s)

SpecStream == InitStream /\ [][NextStream]_vars

-----------------------------------------------------------------------------
(* Decoding specification: one non-strict stream connection feeding a        *)
(* universe loaded with one declared family of each kind; its peer sends, in *)
(* both wire formats, observations of the declared counter and gauge with    *)
(* label lists in either order and a label value that holds a comma          *)

ParseNames == {CounterName, GaugeName}

Pair(k, v) == [k |-> k, v |-> v]

\* the label lists a client writes, pair by pair
OrderedLabels == << Pair(<<"l">>, <<"1">>), Pair(<<"k">>, <<"2">>) >>
ReversedLabels == << Pair(<<"k">>, <<"2">>), Pair(<<"l">>, <<"1">>) >>
CommaLabels == << Pair(<<"l">>, <<"1", ",", "2">>) >>

ParseLabelLists ==
    { << >>, << Pair(<<"l">>, <<"1">>) >>, OrderedLabels, ReversedLabels, CommaLabels }

ParseValue == 1

\* name{k1="v1",k2="v2"} value
TextualForm(n, ls, v) ==
    TextualLine(n, [i \in 1..Len(ls) |-> LabelPair(ls[i].k, ls[i].v)], Sprint(v))

\* {"name":"n","labels":{"k1":"v1","k2":"v2"},"value":v}
StructuredForm(n, ls, v) ==
    StructuredLine(<< Member(NameKey, Quoted(n)),
                      Member(LabelsKey,
                             StructuredLine([i \in 1..Len(ls) |->
                                               Member(ls[i].k, Quoted(ls[i].v))])),
                      Member(ValueKey, Sprint(v)) >>)

\* {"name":"n","value":v}
StructuredFormNoLabels(n, v) ==
    StructuredLine(<< Member(NameKey, Quoted(n)), Member(ValueKey, Sprint(v)) >>)

ParseLines ==
    { TextualForm(n, ls, ParseValue) : n \in ParseNames, ls \in ParseLabelLists }
    \cup { StructuredForm(n, ls, ParseValue) : n \in ParseNames, ls \in ParseLabelLists }
    \cup { StructuredFormNoLabels(n, ParseValue) : n \in ParseNames }

InitParse ==
    /\ collections = newUniverse(InitialDeclarations).cs
    /\ InitProcs
    /\ strict = FALSE
    /\ \E input \in SeqsUpTo(ParseLines, MaxParseLines) :
          \E k \in StreamConns : conns = (k :> NewConn("stream", input))
    /\ last = [op |-> "new", o |-> NoObservation, err |-> NoErr, doc |-> << >>]
    /\ applied = << >>
    /\ nobs = 0

NextParse ==
    \/ \E k \in StreamConns : ConnLine(k)
    \/ \E k \in StreamConns : ConnEOF(k)

SpecParse == InitParse /\ [][NextParse]_vars

-----------------------------------------------------------------------------
(* Concurrent transport specification: two write transports, each served by *)
(* its own goroutine, and a scraper, statement by statement, over a universe *)
(* loaded with one declared family of each kind.  A line is drawn when the  *)
(* read that was blocked on the socket returns it.                          *)

\* c{} 1
NetTextLine == TextualLine(CounterName, << >>, <<"1">>)

\* {"name":"c","value":2}
NetStructuredLine ==
    StructuredLine(<< Member(NameKey, Quoted(CounterName)), Member(ValueKey, <<"2">>) >>)

\* c 1
NetNoBraceLine == CounterName \o <<" ", "1">>

NetLines == {NetTextLine, NetStructuredLine, NetNoBraceLine}

InitNet ==
    /\ collections = newUniverse(InitialDeclarations).cs
    /\ InitProcs
    /\ strict \in BOOLEAN
    /\ \E kind \in {"stream", "packet"} :
          conns = ("w1" :> NewConn("stream", << >>)) @@ ("w2" :> NewConn(kind, << >>))
    /\ last = [op |-> "new", o |-> NoObservation, err |-> NoErr, doc |-> << >>]
    /\ applied = << >>
    /\ nobs = 0

CurLine(k) == conns[k].log[Len(conns[k].log)].line

\* the error of the observe call worker k has just returned from
ReturnedErr(k) ==
    LET S == {i \in 1..Len(doneLog) : doneLog[i].w = k}
        i == CHOOSE i \in S : \A j \in S : j <= i
    IN  doneLog[i].err

afterReject(kind, flag) ==
    IF kind = "stream" THEN connAfterReject(flag) ELSE packetAfterReject(flag)

\* handleConn line 62 / forwardPacketConn line 36: the blocked read returns a line
NetScan(k, line) ==
    /\ conns[k].pc = "scan"
    /\ nobs < MaxConcObs
    /\ nobs' = nobs + 1
    /\ conns' = [conns EXCEPT ![k].pc = "handle",
                              ![k].log = Append(@, [line |-> line, err |-> "pending"])]
    /\ UNCHANGED <<main, strict, collections, mtx, pc, cur, reg, doc, last, applied,
                   lockLog, doneLog>>

\* handleLine lines 76-79: the line does not parse
NetParseError(k) ==
    /\ conns[k].pc = "handle"
    /\ parseLine(CurLine(k)).err # NoErr
    /\ LET next == afterReject(conns[k].kind, strict)
       IN  conns' = [conns EXCEPT ![k].pc = next,
                                  ![k].log[Len(conns[k].log)].err = "parse error",
                                  ![k].end = IF next = "closed" THEN "strict" ELSE ""]
    /\ UNCHANGED <<main, strict, collections, mtx, pc, cur, reg, doc, last, applied,
                   lockLog, doneLog, nobs>>

\* handleLine lines 76-80: the line parses and o.observe is called
NetObserve(k) ==
    /\ conns[k].pc = "handle"
    /\ parseLine(CurLine(k)).err = NoErr
    /\ pc[k] = "idle"
    /\ cur' = [cur EXCEPT ![k] = [o |-> parseLine(CurLine(k)).o, err |-> NoErr]]
    /\ Goto(k, "lock")
    /\ conns' = [conns EXCEPT ![k].pc = "observe"]
    /\ UNCHANGED <<main, strict, collections, mtx, reg, doc, last, applied, lockLog,
                   doneLog, nobs>>

\* handleLine lines 80-83 and the handler's lines 64-71: o.observe has returned
NetReturn(k) ==
    /\ conns[k].pc = "observe"
    /\ pc[k] = "idle"
    /\ LET err  == IF ReturnedErr(k) # NoErr THEN "observation error" ELSE NoErr
           next == IF err # NoErr THEN afterReject(conns[k].kind, strict) ELSE "scan"
       IN  conns' = [conns EXCEPT ![k].pc = next,
                                  ![k].log[Len(conns[k].log)].err = err,
                                  ![k].end = IF next = "closed" THEN "strict" ELSE ""]
    /\ UNCHANGED <<main, strict, collections, mtx, pc, cur, reg, doc, last, applied,
                   lockLog, doneLog, nobs>>

\* the blocked read ends: end of stream (handleConn line 62, then the deferred
\* Close) or a failed ReadFrom (forwardPacketConn lines 37-39)
NetEnd(k) ==
    /\ conns[k].pc = "scan"
    /\ conns' = [conns EXCEPT ![k].pc = "closed",
                              ![k].end = IF conns[k].kind = "stream" THEN "eof"
                                         ELSE "readerr"]
    /\ UNCHANGED <<main, strict, collections, mtx, pc, cur, reg, doc, last, applied,
                   lockLog, doneLog, nobs>>

NextNet ==
    \/ \E k \in Observers, line \in NetLines : NetScan(k, line)
    \/ \E k \in Observers : NetParseError(k)
    \/ \E k \in Observers : NetObserve(k)
    \/ \E k \in Observers : NetReturn(k)
    \/ \E k \in Observers : NetEnd(k)
    \/ \E w \in Observers : ObserveLock(w)
    \/ \E w \in Observers : ObserveFamily(w)
    \/ \E w \in Observers : ObserveSeries(w)
    \/ \E w \in Observers : CounterTouch(w)
    \/ \E w \in Observers : CounterLoad(w)
    \/ \E w \in Observers : CounterStore(w)
    \/ \E w \in Observers : ObserveUnlock(w)
    \/ \E s \in Scrapers : ScrapeLock(s)
    \/ \E s \in Scrapers : ScrapeRender(s)
    \/ \E s \in Scrapers : ScrapeUnlock(s)
    \/ \E s \in Scrapers : ScrapeWrite(s)

SpecNet == InitNet /\ [][NextNet]_vars

-----------------------------------------------------------------------------
(* Malformed-line specification: one non-strict stream connection feeding a *)
(* universe loaded with one declared family of each kind; its peer sends    *)
(* textual lines with each defect of the grammar, textual lines whose value *)
(* token is a word, an infinity or NaN, and lines preceded by a space       *)

LabelL == LabelPair(<<"l">>, <<"1">>)
LabelK == LabelPair(<<"k">>, <<"2">>)

\* the empty line, and a line of two spaces
EmptyLine == << >>
SpacesLine == <<" ", " ">>

\* c{l="1" 1
NoClosingBraceLine == CounterName \o <<"{">> \o LabelL \o <<" ", "1">>

\* c{l="1", k="2"} 1   and   c{l="1" k="2"} 1
SpaceAfterCommaLine == TextualLine(CounterName, << LabelL, <<" ">> \o LabelK >>, <<"1">>)
SpaceForCommaLine == TextualLine(CounterName, << LabelL \o <<" ">> \o LabelK >>, <<"1">>)

\* c{l=1} 1   and   c{l="1} 1
UnquotedLine == TextualLine(CounterName, << <<"l", "=", "1">> >>, <<"1">>)
HalfQuotedLine == TextualLine(CounterName, << <<"l", "=", "\"", "1">> >>, <<"1">>)

\* c{l=} 1   and   c{l="} 1
EmptyValueLine == TextualLine(CounterName, << <<"l", "=">> >>, <<"1">>)
LoneQuoteLine == TextualLine(CounterName, << <<"l", "=", "\"">> >>, <<"1">>)

\* c{l="1"} 1
LabelledLine == TextualLine(CounterName, << LabelL >>, <<"1">>)

\* c{} x, c{} Inf, c{} +Inf, c{} -Inf, c{} NaN, g{} -Inf, h{} NaN
ValueTokens == { <<"x">>, <<"I", "n", "f">>, <<"+", "I", "n", "f">>,
                 <<"-", "I", "n", "f">>, <<"N", "a", "N">> }
ValueTokenLines ==
    { TextualLine(CounterName, << >>, t) : t \in ValueTokens }
    \cup { TextualLine(GaugeName, << >>, <<"-", "I", "n", "f">>),
           TextualLine(HistogramName, << >>, <<"N", "a", "N">>) }

\* a space, then c{} 1; a space, then {"name":"c","value":2}
LeadingSpaceTextLine == <<" ">> \o NetTextLine
LeadingSpaceStructuredLine == <<" ">> \o NetStructuredLine

MalformedLines ==
    { EmptyLine, SpacesLine, NetNoBraceLine, NoClosingBraceLine, SpaceAfterCommaLine,
      SpaceForCommaLine, UnquotedLine, HalfQuotedLine, EmptyValueLine, LoneQuoteLine }

\* {"type":"counter","help":"x","value":1}
NamelessLine ==
    StructuredLine(<< Member(TypeKey, Quoted(CounterWord)),
                      Member(HelpKey, Quoted(<<"x">>)),
                      Member(ValueKey, <<"1">>) >>)

SentLines ==
    MalformedLines \cup ValueTokenLines
    \cup { NetTextLine, LabelledLine, NetStructuredLine, LeadingSpaceTextLine,
           LeadingSpaceStructuredLine, OtherFamilyLine, NoHelpLine, NamelessLine }

InitLines ==
    /\ collections = newUniverse(InitialDeclarations).cs
    /\ InitProcs
    /\ strict = FALSE
    /\ \E input \in SeqsUpTo(SentLines, MaxParseLines) :
          \E k \in StreamConns : conns = (k :> NewConn("stream", input))
    /\ last = [op |-> "new", o |-> NoObservation, err |-> NoErr, doc |-> << >>]
    /\ applied = << >>
    /\ nobs = 0

SpecLines == InitLines /\ [][NextParse]_vars

(* Long-line specification: a non-strict stream connection receives lines   *)
(* of the two formats and a line longer than the scanner's buffer            *)

\* c{l="1"} 1 followed by spaces, longer than the buffer of the scanner
LongLine == LabelledLine \o [i \in 1..MaxScanTokenSize |-> " "]

LongLines ==
    {LabelledLine, NetTextLine, NetStructuredLine, UnquotedLine,
     OtherFamilyLine, LongLine}

InitLong ==
    /\ collections = newUniverse(InitialDeclarations).cs
    /\ InitProcs
    /\ strict = FALSE
    /\ \E input \in SeqsUpTo(LongLines, MaxParseLines) :
          \E k \in StreamConns : conns = (k :> NewConn("stream", input))
    /\ last = [op |-> "new", o |-> NoObservation, err |-> NoErr, doc |-> << >>]
    /\ applied = << >>
    /\ nobs = 0

SpecLong == InitLong /\ [][NextParse]_vars

-----------------------------------------------------------------------------
(* Textual decoder specification: prometheusUnmarshal is called once, on a  *)
(* line and an observation of the caller                                    *)

\* observations a caller may pass: the zero value and one with every field set
CallerObservations ==
    { NoObservation,
      Observation(GaugeName, [Type |-> "gauge", Help |-> "y", Buckets |-> <<1>>],
                  (<<"k">> :> <<"2">>), "add", <<2>>) }

UnmarshalLines == SentLines \cup ParseLines

InitUnmarshal ==
    /\ collections = << >>
    /\ InitProcs
    /\ strict = FALSE
    /\ \E line \in UnmarshalLines :
          conns = ("call" :> NewConn("call", <<line>>))
    /\ \E o \in CallerObservations :
          last = [op |-> "new", o |-> o, err |-> NoErr, doc |-> << >>]
    /\ applied = << >>
    /\ nobs = 0

\* err := prometheusUnmarshal(p, &o)
Unmarshal ==
    /\ conns["call"].input # << >>
    /\ \E r \in {prometheusUnmarshal(Head(conns["call"].input), last.o)} :
          /\ last' = [op |-> "unmarshal", o |-> r.o, err |-> r.err, doc |-> << >>]
          /\ conns' = Handled("call", Head(conns["call"].input), r.err, "closed", "")
    /\ UNCHANGED <<main, strict, collections, mtx, pc, cur, reg, doc, applied,
                   lockLog, doneLog, nobs>>

SpecUnmarshal == InitUnmarshal /\ [][Unmarshal]_vars

-----------------------------------------------------------------------------
(* Connections specification: forwardListener has accepted two stream       *)
(* connections and runs one handleConn goroutine for each; the goroutines   *)
(* interleave line by line                                                  *)

TwoConns == {"k1", "k2"}

\* c{l="1"} 1 is accepted, c{l=1} 1 is a parse error, c{l=} 1 panics
ConnsLines == {LabelledLine, UnquotedLine, EmptyValueLine}

InitConns ==
    /\ collections = newUniverse(InitialDeclarations).cs
    /\ InitProcs
    /\ strict \in BOOLEAN
    /\ \E inputs \in [TwoConns -> SeqsUpTo(ConnsLines, MaxParseLines)] :
          conns = [k \in TwoConns |-> NewConn("stream", inputs[k])]
    /\ last = [op |-> "new", o |-> NoObservation, err |-> NoErr, doc |-> << >>]
    /\ applied = << >>
    /\ nobs = 0

NextConns ==
    \/ \E k \in TwoConns : ConnLine(k)
    \/ \E k \in TwoConns : ConnEOF(k)

SpecConns == InitConns /\ [][NextConns]_vars

-----------------------------------------------------------------------------
(* Process specification: main, from the loading of the declarations to the *)
(* return of the run group.  The addresses are free, so a listen call on a  *)
(* network that exists succeeds; the declaration file is readable JSON; a   *)
(* signal arrives only once signal.Notify has registered the channel.       *)

\* time.Second of context.WithTimeout, in seconds
ShutdownGrace == 1

\* lines 389-392: the schemes for which an address is taken from the URL
AddressSchemes ==
    {"udp", "udp4", "udp6", "tcp", "tcp4", "tcp6", "unix", "unixgram", "unipacket"}

\* line 399 and line 413: the cases of the second switch
PacketCase == {"udp", "udp4", "udp6", "unixgram"}
ListenerCase == {"tcp", "tcp4", "tcp6", "unix", "unixpacket"}

\* net.ResolveUDPAddr: any other network is an UnknownNetworkError
UDPNetworks == {"udp", "udp4", "udp6"}

\* -socket schemes given on the command line
Schemes == AddressSchemes \cup ListenerCase \cup {"http"}

\* declarations of the -declfile: the same family as a counter, as a gauge and
\* with a type that newTimeseriesCollection refuses
Decls ==
    { Observation(CounterName, [Type |-> "counter", Help |-> "x", Buckets |-> << >>],
                  NoLabels, "", NilValue),
      Observation(CounterName, [Type |-> "gauge", Help |-> "y", Buckets |-> << >>],
                  (<<"l">> :> <<"1">>), "", NilValue),
      Observation(CounterName, [Type |-> "summary", Help |-> "x", Buckets |-> << >>],
                  NoLabels, "", NilValue) }

InitMain ==
    /\ collections = << >>
    /\ \E scheme \in Schemes, decls \in SeqsUpTo(Decls, MaxDecls) :
          main = [pc |-> "newUniverse", scheme |-> scheme, decls |-> decls,
                  socketLn |-> "nil", conn |-> "nil", metricsLn |-> "nil",
                  fwd |-> "idle", serve |-> "idle", sig |-> "idle",
                  signal |-> FALSE, shutdown |-> 0, cancelled |-> FALSE]
    /\ mtx = "free"
    /\ pc = [w \in Workers |-> "idle"]
    /\ cur = [w \in Observers |-> NoCall]
    /\ reg = [w \in Observers |-> 0]
    /\ doc = [s \in Scrapers |-> << >>]
    /\ lockLog = << >>
    /\ doneLog = << >>
    /\ strict = FALSE
    /\ conns = << >>
    /\ last = [op |-> "new", o |-> NoObservation, err |-> NoErr, doc |-> << >>]
    /\ applied = << >>
    /\ nobs = 0

\* the process runs: no os.Exit, no unrecovered panic, main has not returned
Alive == main.pc \notin {"exit1", "panic", "exited"} /\ ~Crashed

MainOnly == <<collections, mtx, pc, cur, reg, doc, last, applied, lockLog, doneLog,
              nobs, strict, conns>>

\* lines 366-375: u, err = newUniverse(initial...); os.Exit(1) on an error
NewUniverse ==
    /\ main.pc = "newUniverse"
    /\ \E r \in {newUniverse(main.decls)} :
          /\ collections' = r.cs
          /\ main' = [main EXCEPT !.pc = IF r.err # NoErr THEN "exit1" ELSE "socket"]
    /\ UNCHANGED <<mtx, pc, cur, reg, doc, last, applied, lockLog, doneLog, nobs,
                   strict, conns>>

\* lines 377-423: the two switches on the scheme of the -socket address
OpenSocket ==
    /\ main.pc = "socket"
    /\ main' =
         IF main.scheme \notin AddressSchemes THEN [main EXCEPT !.pc = "exit1"]
         ELSE IF main.scheme \in PacketCase
         THEN IF main.scheme \notin UDPNetworks THEN [main EXCEPT !.pc = "exit1"]
              ELSE [main EXCEPT !.pc = "metrics", !.conn = "open"]
         ELSE IF main.scheme \in ListenerCase
         THEN [main EXCEPT !.pc = "metrics", !.socketLn = "open"]
         ELSE [main EXCEPT !.pc = "metrics"]
    /\ UNCHANGED MainOnly

\* lines 425-442: the listener of the scrape address
OpenMetrics ==
    /\ main.pc = "metrics"
    /\ main' = [main EXCEPT !.pc = "run", !.metricsLn = "open"]
    /\ UNCHANGED MainOnly

\* g.Run: one goroutine per actor, then wait for the first of them to return
RunStart ==
    /\ main.pc = "run"
    /\ main' = [main EXCEPT !.pc = "wait", !.fwd = "start", !.serve = "start",
                            !.sig = "start"]
    /\ UNCHANGED MainOnly

\* lines 467-469: the log call evaluates socketLn.Addr(), then forwardFunc()
FwdStart ==
    /\ Alive
    /\ main.fwd = "start"
    /\ main' = IF main.socketLn = "nil" THEN [main EXCEPT !.pc = "panic"]
               ELSE [main EXCEPT !.fwd = "accept"]
    /\ UNCHANGED MainOnly

\* forwardListener, one iteration: Accept returned a connection
FwdAccept(k, input) ==
    /\ Alive
    /\ main.fwd = "accept"
    /\ main.socketLn = "open"
    /\ k \notin DOMAIN conns
    /\ conns' = (k :> NewConn("stream", input)) @@ conns
    /\ UNCHANGED <<main, collections, mtx, pc, cur, reg, doc, last, applied, lockLog,
                   doneLog, nobs, strict>>

\* forwardListener, lines 51-54: Accept failed on the closed listener
FwdReturn ==
    /\ Alive
    /\ main.fwd = "accept"
    /\ main.socketLn = "closed"
    /\ main' = [main EXCEPT !.fwd = "returned"]
    /\ UNCHANGED MainOnly

\* forwardListener, lines 51-54: Accept failed on the open listener (the
\* process is out of file descriptors, say)
FwdAcceptError ==
    /\ Alive
    /\ main.fwd = "accept"
    /\ main.socketLn = "open"
    /\ main' = [main EXCEPT !.fwd = "returned"]
    /\ UNCHANGED MainOnly

\* lines 482-487: server.Serve(metricsLn); ErrServerClosed after a Shutdown
ServeStart ==
    /\ Alive
    /\ main.serve = "start"
    /\ main' = [main EXCEPT !.serve = IF main.shutdown # 0 THEN "returned" ELSE "serve"]
    /\ UNCHANGED MainOnly

ServeReturn ==
    /\ Alive
    /\ main.serve = "serve"
    /\ main.shutdown # 0
    /\ main' = [main EXCEPT !.serve = "returned"]
    /\ UNCHANGED MainOnly

\* the server's handler: universe.ServeHTTP on the scrape path
MainScrape(s) ==
    /\ Alive
    /\ main.serve = "serve"
    /\ main.metricsLn = "open"
    /\ ScrapeCall(s)

\* lines 498-500: the signal channel is registered
SigStart ==
    /\ Alive
    /\ main.sig = "start"
    /\ main' = [main EXCEPT !.sig = "select"]
    /\ UNCHANGED MainOnly

\* lines 501-503: SIGINT or SIGTERM arrives
SigReceive ==
    /\ Alive
    /\ main.sig = "select"
    /\ main' = [main EXCEPT !.sig = "returned", !.signal = TRUE]
    /\ UNCHANGED MainOnly

\* lines 504-505: the context was cancelled
SigCancelled ==
    /\ Alive
    /\ main.sig = "select"
    /\ main.cancelled
    /\ main' = [main EXCEPT !.sig = "returned"]
    /\ UNCHANGED MainOnly

\* g.Run: the first actor has returned
RunFirst ==
    /\ Alive
    /\ main.pc = "wait"
    /\ "returned" \in {main.fwd, main.serve, main.sig}
    /\ main' = [main EXCEPT !.pc = "interrupt forward"]
    /\ UNCHANGED MainOnly

Closed(l) == IF l = "open" THEN "closed" ELSE l

\* lines 470-472: forwardClose(), a nil function when the second switch took no case
InterruptForward ==
    /\ Alive
    /\ main.pc = "interrupt forward"
    /\ main' = IF main.socketLn = "nil" /\ main.conn = "nil"
               THEN [main EXCEPT !.pc = "panic"]
               ELSE [main EXCEPT !.pc = "interrupt serve",
                                 !.socketLn = Closed(@), !.conn = Closed(@)]
    /\ UNCHANGED MainOnly

\* lines 488-494: server.Shutdown under a context that expires after a second
InterruptServe ==
    /\ Alive
    /\ main.pc = "interrupt serve"
    /\ main' = [main EXCEPT !.pc = "interrupt signal", !.shutdown = ShutdownGrace,
                            !.metricsLn = "closed"]
    /\ UNCHANGED MainOnly

\* lines 507-509: cancel()
InterruptSignal ==
    /\ Alive
    /\ main.pc = "interrupt signal"
    /\ main' = [main EXCEPT !.pc = "join", !.cancelled = TRUE]
    /\ UNCHANGED MainOnly

\* g.Run returns when every actor has returned; line 511, main returns
RunReturn ==
    /\ Alive
    /\ main.pc = "join"
    /\ {main.fwd, main.serve, main.sig} = {"returned"}
    /\ main' = [main EXCEPT !.pc = "exited"]
    /\ UNCHANGED MainOnly

\* the handler goroutines of the accepted connections
MainConnLine(k) == Alive /\ ConnLine(k)
MainConnEOF(k) == Alive /\ ConnEOF(k)

NextMain ==
    \/ NewUniverse
    \/ OpenSocket
    \/ OpenMetrics
    \/ RunStart
    \/ FwdStart
    \/ \E input \in SeqsUpTo({DeclaringLine}, 1) : FwdAccept("k1", input)
    \/ FwdReturn
    \/ FwdAcceptError
    \/ ServeStart
    \/ ServeReturn
    \/ \E s \in Scrapers : MainScrape(s)
    \/ SigStart
    \/ SigReceive
    \/ SigCancelled
    \/ RunFirst
    \/ InterruptForward
    \/ InterruptServe
    \/ InterruptSignal
    \/ RunReturn
    \/ \E k \in StreamConns : MainConnLine(k)
    \/ \E k \in StreamConns : MainConnEOF(k)

SpecMain == InitMain /\ [][NextMain]_vars

-----------------------------------------------------------------------------
(* Reading a document and the history *)

LineNames(n) == {n, n \o SumSuffix, n \o CountSuffix, n \o BucketSuffix}

\* some line of the document belongs to family n
Mentions(d, n) == \E i \in 1..Len(d) : d[i].kind # "blank" /\ d[i].name \in LineNames(n)

\* the document holds the HELP line of family n followed by its TYPE line
HasHeader(d, n) ==
    \E i \in 1..Len(d) :
        /\ d[i].kind = "HELP" /\ d[i].name = n
        /\ i < Len(d) /\ d[i + 1].kind = "TYPE" /\ d[i + 1].name = n

\* the document holds the sample line (counter, gauge) or the _sum line
\* (histogram) of the series v
SeriesInDoc(d, v) ==
    \E i \in 1..Len(d) :
        /\ d[i].kind = "f"
        /\ d[i].name \in {v.n, v.n \o SumSuffix}
        /\ d[i].labels = renderLabels(v.labels)

\* the family / the series has accepted a value-carrying observation
FamilyValued(n) == \E id \in DOMAIN applied : id[1] = n
SeriesValued(n, k) == <<n, k>> \in DOMAIN applied

FamilyTouched(n) ==
    /\ n \in DOMAIN collections
    /\ \E k \in DOMAIN collections[n].values : valueTouched(collections[n].values[k])

\* what a series has accumulated
Accumulator(v) ==
    CASE v.variant = "counter"   -> <<v.value, v.touch>>
      [] v.variant = "gauge"     -> <<v.value, v.touch>>
      [] v.variant = "histogram" ->
            <<v.sum, v.count, [i \in 1..Len(v.buckets) |-> v.buckets[i].count]>>

IsObserveStep == last'.op = "observe" /\ nobs' = nobs + 1

-----------------------------------------------------------------------------
(* C1 - C4: rendering of touched families and series, declarations, metadata *)

\* C1: a scrape document holds the HELP/TYPE header of a family if and only if
\* a series of the family is touched, which is so if and only if the family has
\* accepted a value-carrying observation; a family that received declarations
\* only has no line at all in the document.
C1_HeaderIffTouched ==
    last.op = "scrape" =>
        \A n \in Names :
            /\ HasHeader(last.doc, n) <=> FamilyTouched(n)
            /\ FamilyTouched(n) <=> FamilyValued(n)
            /\ ~FamilyValued(n) => ~Mentions(last.doc, n)

\* a scrape that shows one family and passes over a declared-only one
C1_Witness ==
    /\ last.op = "scrape"
    /\ \E n \in DOMAIN collections :
          /\ ~FamilyValued(n)
          /\ DOMAIN collections[n].values # {}
    /\ \E m \in DOMAIN collections : FamilyValued(m) /\ HasHeader(last.doc, m)

\* C2: within a rendered family the document holds the lines of a series if
\* and only if the series is touched, that is, has accepted a value-carrying
\* observation; a series created by a declaration alone is not rendered.
C2_SeriesIffTouched ==
    last.op = "scrape" =>
        \A n \in DOMAIN collections :
            HasHeader(last.doc, n) =>
                \A k \in DOMAIN collections[n].values :
                    /\ SeriesInDoc(last.doc, collections[n].values[k])
                          <=> valueTouched(collections[n].values[k])
                    /\ valueTouched(collections[n].values[k]) <=> SeriesValued(n, k)

\* a rendered family with one touched and one declared-only series
C2_Witness ==
    /\ last.op = "scrape"
    /\ \E n \in DOMAIN collections :
          /\ HasHeader(last.doc, n)
          /\ \E k1, k2 \in DOMAIN collections[n].values :
                /\ SeriesValued(n, k1) /\ SeriesInDoc(last.doc, collections[n].values[k1])
                /\ ~SeriesValued(n, k2) /\ ~SeriesInDoc(last.doc, collections[n].values[k2])

\* C3: an observe call whose observation has no value leaves the accumulator
\* and the touched flag of every existing series as they were; it adds at most
\* the family named and, in it, one series, untouched and with a zero accumulator.
C3_DeclarationFrame ==
    [][ (IsObserveStep /\ ~HasValue(last'.o)) =>
          /\ \A n \in DOMAIN collections :
                /\ n \in DOMAIN collections'
                /\ \A k \in DOMAIN collections[n].values :
                      /\ k \in DOMAIN collections'[n].values
                      /\ Accumulator(collections'[n].values[k])
                            = Accumulator(collections[n].values[k])
                      /\ valueTouched(collections'[n].values[k])
                            = valueTouched(collections[n].values[k])
          /\ DOMAIN collections' \subseteq DOMAIN collections \cup {last'.o.Name}
          /\ \A n \in DOMAIN collections' :
                \A k \in DOMAIN collections'[n].values :
                    (n \notin DOMAIN collections \/ k \notin DOMAIN collections[n].values)
                    => /\ n = last'.o.Name
                       /\ k = observationTimeseriesKey(last'.o)
                       /\ ~valueTouched(collections'[n].values[k])
                       /\ collections'[n].values[k]
                             = newTimeseriesValue(collections'[n].typ,
                                   firstWriterWins(collections'[n], last'.o)).v
      ]_vars

\* a declaration has been applied to a series that holds a value
C3_Witness ==
    /\ last.op = "observe" /\ ~HasValue(last.o) /\ last.err = NoErr
    /\ LET n == last.o.Name
           k == observationTimeseriesKey(last.o)
       IN  /\ n \in DOMAIN collections
           /\ k \in DOMAIN collections[n].values
           /\ collections[n].values[k].variant = "counter"
           /\ collections[n].values[k].value = 1

\* C4: a family that exists keeps its kind, help and buckets in every step, and
\* an observe call on an existing family returns no error, whatever kind, help
\* and buckets the observation carries.
C4_MetadataFixed ==
    [][ \A n \in DOMAIN collections :
          /\ n \in DOMAIN collections'
          /\ collections'[n].typ = collections[n].typ
          /\ collections'[n].help = collections[n].help
          /\ collections'[n].buckets = collections[n].buckets
          /\ (IsObserveStep /\ last'.o.Name = n) => last'.err = NoErr
      ]_vars

\* a value-carrying observation with another, invalid kind has been applied to
\* an existing family
C4_Witness ==
    /\ last.op = "observe" /\ HasValue(last.o) /\ last.err = NoErr
    /\ last.o.Type = "summary"
    /\ last.o.Name \in DOMAIN collections
    /\ collections[last.o.Name].typ = "histogram"
    /\ SeriesValued(last.o.Name, observationTimeseriesKey(last.o))

-----------------------------------------------------------------------------
(* C5, C6, C8: what the accumulators hold *)

SeriesLog(n, k) == IF <<n, k>> \in DOMAIN applied THEN applied[<<n, k>>] ELSE << >>

RECURSIVE SumValues(_)
SumValues(log) == IF Len(log) = 0 THEN 0 ELSE Head(log).v + SumValues(Tail(log))

CountAtMost(log, bound) == Cardinality({j \in 1..Len(log) : log[j].v <= bound})

AllSeries == {<<n, k>> \in UNION {{n} \X DOMAIN collections[n].values : n \in DOMAIN collections} : TRUE}

SeriesOf(id) == collections[id[1]].values[id[2]]

\* C5: for every histogram series and its accepted values, each bucket's count
\* is the number of values less than or equal to the bucket's bound, count is
\* the number of values, sum is their sum, and the rendered +Inf bucket line
\* carries count.
C5_HistogramCumulative ==
    \A id \in AllSeries :
        LET h   == SeriesOf(id)
            log == SeriesLog(id[1], id[2])
            txt == valueRenderText(h)
        IN  h.variant = "histogram" =>
              /\ \A i \in 1..Len(h.buckets) :
                    /\ h.buckets[i].count = CountAtMost(log, h.buckets[i].max)
                    /\ txt[i].num = CountAtMost(log, h.buckets[i].max)
              /\ h.count = Len(log)
              /\ h.sum = SumValues(log)
              /\ txt[Len(h.buckets) + 1].labels = renderLabels((LeLabel :> InfLabel) @@ h.labels)
              /\ txt[Len(h.buckets) + 1].name = h.n \o BucketSuffix
              /\ txt[Len(h.buckets) + 1].num = Len(log)

\* a histogram that has taken a value equal to a bound, one between the bounds'
\* ends and one above every bound
C5_Witness ==
    \E id \in AllSeries :
        LET h   == SeriesOf(id)
            log == SeriesLog(id[1], id[2])
        IN  /\ h.variant = "histogram"
            /\ Len(log) = 3
            /\ \E i \in 1..3 : log[i].v = h.buckets[1].max
            /\ \E i \in 1..3 : log[i].v > h.buckets[Len(h.buckets)].max
            /\ h.buckets[1].count < h.buckets[2].count
            /\ h.buckets[2].count < h.count

RECURSIVE GaugeFold(_, _)
GaugeFold(acc, log) ==
    IF Len(log) = 0 THEN acc
    ELSE GaugeFold(IF Head(log).op = "add" THEN acc + Head(log).v ELSE Head(log).v,
                   Tail(log))

Op(op, v) == [op |-> op, v |-> v]

\* C6: a gauge holds its accepted values folded from zero, op "add" adding and
\* every other op replacing; set(1),set(2) leaves 2 and add(1),add(2) leaves 3.
C6_GaugeSetAdd ==
    \A id \in AllSeries :
        LET g   == SeriesOf(id)
            log == SeriesLog(id[1], id[2])
        IN  g.variant = "gauge" =>
              /\ g.value = GaugeFold(0, log)
              /\ log \in {<<Op("", 1), Op("", 2)>>, <<Op("set", 1), Op("set", 2)>>}
                    => g.value = 2
              /\ log = <<Op("add", 1), Op("add", 2)>> => g.value = 3
              /\ (Len(log) > 0 /\ log[Len(log)].op # "add") => g.value = log[Len(log)].v

\* add(1),add(2) has been applied to a fresh gauge
C6_Witness ==
    \E id \in AllSeries :
        /\ SeriesOf(id).variant = "gauge"
        /\ SeriesLog(id[1], id[2]) = <<Op("add", 1), Op("add", 2)>>
        /\ SeriesOf(id).value = 3

\* C8: the value of a counter series never decreases.
C8_CounterMonotonic ==
    [][ \A n \in DOMAIN collections :
          \A k \in DOMAIN collections[n].values :
              collections[n].values[k].variant = "counter"
              => collections'[n].values[k].value >= collections[n].values[k].value
      ]_vars

-----------------------------------------------------------------------------
(* C7, C9, C10: concurrent observers and scrapes *)

InitialUniverse == newUniverse(InitialDeclarations).cs

\* the registry after whole observe calls, one after the other
RECURSIVE Replay(_, _)
Replay(cs, log) ==
    IF Len(log) = 0 THEN cs
    ELSE Replay(universeObserve(cs, Head(log).o).cs, Tail(log))

Quiescent == \A w \in Observers : pc[w] = "idle"

CriticalPcs ==
    {"family", "series", "c_touch", "c_load", "c_store", "g_load", "g_store",
     "g_touch", "h_load", "h_sum", "h_count", "h_buckets", "unlock",
     "s_render", "s_unlock"}

\* C7: when the observe calls of all workers have completed, every counter
\* series holds the sum of the values of the accepted observations of that
\* series, whatever the interleaving was.
C7_CounterSum ==
    Quiescent =>
        \A id \in AllSeries :
            LET c   == SeriesOf(id)
                log == SeriesLog(id[1], id[2])
            IN  c.variant = "counter" =>
                  /\ c.value = SumValues(log)
                  /\ c.touch = (Len(log) > 0)

\* two workers have each added a different value to the same counter series
C7_Witness ==
    /\ Quiescent
    /\ Len(doneLog) = 2
    /\ doneLog[1].w # doneLog[2].w
    /\ doneLog[1].o.Name = CounterName /\ doneLog[2].o.Name = CounterName
    /\ ValueOf(doneLog[1].o) # ValueOf(doneLog[2].o)
    /\ collections[CounterName].values[makeTimeseriesKey(CounterName, NoLabels)].value = 3

IsSnapshot(d) ==
    \E k \in 0..Len(doneLog) :
        d = renderUniverse(Replay(InitialUniverse, SubSeq(doneLog, 1, k)))

\* C9: the document a scrape has built, which is the one it writes, is the
\* rendering of the registry as it is after some number of completed observe
\* calls, applied whole.
C9_ScrapeSnapshot ==
    \A s \in Scrapers : pc[s] \in {"s_unlock", "s_write"} => IsSnapshot(doc[s])

\* a scrape has built a document showing the histogram while an observer that
\* has started its call waits for the lock
C9_Witness ==
    \E s \in Scrapers :
        /\ pc[s] = "s_unlock"
        /\ \E w \in Observers : pc[w] = "lock" /\ cur[w].o.Name = HistogramName
        /\ Len(doneLog) >= 1
        /\ Mentions(doc[s], HistogramName)

\* C10: at most one worker is between Lock and Unlock, the mutex is held by
\* that worker, and whenever the mutex is free the registry is the result of
\* applying the observations one after the other in lock-acquisition order.
C10_Linearized ==
    /\ Cardinality({w \in Workers : pc[w] \in CriticalPcs}) <= 1
    /\ \A w \in Workers : pc[w] \in CriticalPcs <=> mtx = w
    /\ mtx = "free" => collections = Replay(InitialUniverse, lockLog)

\* two workers have written the same gauge series, add(2) first and set(1)
\* second: the result is the one of that order
C10_Witness ==
    /\ mtx = "free" /\ Quiescent
    /\ Len(lockLog) = 2
    /\ lockLog[1].w # lockLog[2].w
    /\ lockLog[1].o.Name = GaugeName /\ lockLog[1].o.Op = "add"
    /\ lockLog[2].o.Name = GaugeName /\ lockLog[2].o.Op = ""
    /\ collections[GaugeName].values[makeTimeseriesKey(GaugeName, NoLabels)].value = 1

-----------------------------------------------------------------------------
(* The registry lock and network I/O *)

\* worker w is in network I/O: a scraper writing its response, a transport
\* goroutine blocked in the read of its next line or datagram
AtNetworkIO(w) ==
    \/ w \in Scrapers /\ pc[w] = "s_write"
    \/ w \in DOMAIN conns /\ conns[w].pc = "scan"

\* C11: no worker holds the registry lock while doing network I/O: a scraper
\* that writes its response has released the lock, and a transport goroutine
\* blocked reading its next line does not hold it, so the mutex is never owned
\* by a worker that waits on a socket.
C11_NoLockAcrossIO == \A w \in Workers : AtNetworkIO(w) => mtx # w

\* a transport goroutine holds the lock while the scraper is writing its response
\* and the other transport is blocked in its read
C11_Witness ==
    \E s \in Scrapers, k \in Observers, j \in Observers :
        /\ pc[s] = "s_write"
        /\ mtx = k
        /\ j # k
        /\ conns[j].pc = "scan"

-----------------------------------------------------------------------------
(* Lines handled by a transport *)

\* this step is one loop iteration of transport k: a line was read and handled
LineStep(k) ==
    /\ k \in DOMAIN conns
    /\ Len(conns'[k].log) = Len(conns[k].log) + 1

\* the line that the step handles, and the error handleLine returned for it
StepLine(k) == conns'[k].log[Len(conns'[k].log)].line
StepErr(k) == conns'[k].log[Len(conns'[k].log)].err

\* the observation carries what newTimeseriesCollection requires
ValidMeta(o) == o.Type \in {"counter", "gauge", "histogram"} /\ o.Help # ""

\* C12: a line that parses, names a family that is not in the registry and
\* carries no valid type and help (every textual line; a structured line with
\* neither, or with a type and no help) is rejected with an observation error,
\* and the registry after it is the registry before it: no family, no series.
C12_UnknownFamilyRejected ==
    [][\A k \in DOMAIN conns :
          LineStep(k) =>
            LET r == parseLine(StepLine(k))
            IN  (r.err = NoErr /\ r.o.Name \notin DOMAIN collections /\ ~ValidMeta(r.o))
                => /\ StepErr(k) = "observation error"
                   /\ collections' = collections]_vars

\* a textual line and a structured line without help, both naming b, were
\* rejected while family a exists, and b is not in the registry
C12_Witness ==
    \E k \in DOMAIN conns :
        /\ \E i \in 1..Len(conns[k].log) :
              conns[k].log[i] = [line |-> OtherFamilyLine, err |-> "observation error"]
        /\ \E i \in 1..Len(conns[k].log) :
              conns[k].log[i] = [line |-> NoHelpLine, err |-> "observation error"]
        /\ <<"a">> \in DOMAIN collections
        /\ <<"b">> \notin DOMAIN collections

\* C13: whenever handling a line ends in a parse error or an observation error,
\* every family that existed before the line still exists with the same type,
\* help and buckets, and every series that existed has the same accumulators
\* and touched flag.
C13_ErrorLeavesExisting ==
    [][\A k \in DOMAIN conns :
          (LineStep(k) /\ StepErr(k) # NoErr) =>
            \A n \in DOMAIN collections :
                /\ n \in DOMAIN collections'
                /\ collections'[n].typ = collections[n].typ
                /\ collections'[n].help = collections[n].help
                /\ collections'[n].buckets = collections[n].buckets
                /\ \A key \in DOMAIN collections[n].values :
                      /\ key \in DOMAIN collections'[n].values
                      /\ collections'[n].values[key] = collections[n].values[key]]_vars

\* after an accepted line, a line with a parse error and a line with an
\* observation error were handled, and the series still holds the accepted value
C13_Witness ==
    \E k \in DOMAIN conns :
        /\ Len(conns[k].log) = 3
        /\ conns[k].log[1] = [line |-> DeclaringLine, err |-> NoErr]
        /\ {conns[k].log[2].err, conns[k].log[3].err}
              = {"parse error", "observation error"}
        /\ <<"a">> \in DOMAIN collections
        /\ \E key \in DOMAIN collections[<<"a">>].values :
              /\ collections[<<"a">>].values[key].touch
              /\ collections[<<"a">>].values[key].value = 1

\* the lines transport k has handled, in the order it handled them
LogLines(k) == [i \in 1..Len(conns[k].log) |-> conns[k].log[i].line]

\* the registry after the lines are handled one after the other, each by handleLine
RECURSIVE ReplayLines(_, _)
ReplayLines(cs, lines) ==
    IF lines = << >> THEN cs
    ELSE ReplayLines(handleLine(cs, Head(lines)).cs, Tail(lines))

Rejected(k) == {i \in 1..Len(conns[k].log) : conns[k].log[i].err # NoErr}

\* C14: in strict mode, once a line of a stream connection is rejected (parse
\* error or observation error) the handler has returned and closed the
\* connection: the rejected line is the last one it handled, and the registry
\* holds the effect of the lines before it and of no line sent after it.
C14_StrictStops ==
    \A k \in DOMAIN conns :
        (strict /\ conns[k].kind = "stream") =>
            \A i \in Rejected(k) :
                /\ i = Len(conns[k].log)
                /\ conns[k].pc = "closed"
                /\ conns[k].end = "strict"
                /\ collections = ReplayLines(newUniverse(<< >>).cs,
                                             SubSeq(conns[k].sent, 1, i - 1))

\* strict mode: the declaring line was applied, the next line was rejected and
\* the connection is closed with a valid line of the same series still unread
C14_Witness ==
    \E k \in DOMAIN conns :
        /\ strict
        /\ conns[k].kind = "stream"
        /\ conns[k].sent = <<DeclaringLine, NoBraceLine, TextLine>>
        /\ conns[k].pc = "closed"
        /\ conns[k].input = <<TextLine>>
        /\ collections[<<"a">>].values[makeTimeseriesKey(<<"a">>, (<<"l">> :> <<"1">>))].value = 1

\* C15: in non-strict mode a stream connection is closed only at the end of
\* its input, rejected lines included: the handler has handled the lines sent
\* so far in order, skipping none, and the registry is what handling each of
\* them in turn gives, so every valid line after a rejected one is applied.
C15_NonStrictContinues ==
    \A k \in DOMAIN conns :
        (~strict /\ conns[k].kind = "stream") =>
            /\ LogLines(k) \o conns[k].input = conns[k].sent
            /\ conns[k].pc \in {"scan", "closed"}
            /\ conns[k].pc = "closed" => (conns[k].end = "eof" /\ conns[k].input = << >>)
            /\ collections = ReplayLines(newUniverse(<< >>).cs, LogLines(k))

\* non-strict mode: a line with a parse error and a line with an observation
\* error came first, the declaring line after them was applied
C15_Witness ==
    \E k \in DOMAIN conns :
        /\ ~strict
        /\ conns[k].kind = "stream"
        /\ conns[k].log = << [line |-> NoBraceLine, err |-> "parse error"],
                              [line |-> ByNameLine, err |-> "observation error"],
                              [line |-> DeclaringLine, err |-> NoErr] >>
        /\ conns[k].end = "eof"
        /\ collections[<<"a">>].values[makeTimeseriesKey(<<"a">>, (<<"l">> :> <<"1">>))].value = 1

\* C16: on a packet socket a rejected datagram never ends the receive loop,
\* with the strict flag set or not: the loop has handled the datagrams received
\* so far in order, the registry is what handling each of them in turn gives,
\* and the loop has ended only if a read from the socket failed.
C16_PacketLoopContinues ==
    \A k \in DOMAIN conns :
        conns[k].kind = "packet" =>
            /\ LogLines(k) \o conns[k].input = conns[k].sent
            /\ conns[k].pc \in {"scan", "closed"}
            /\ conns[k].pc = "closed" => conns[k].end = "readerr"
            /\ collections = ReplayLines(newUniverse(<< >>).cs, LogLines(k))

\* strict flag set: a datagram with a parse error and one with an observation
\* error were rejected, the declaring datagram after them was applied and the
\* loop is still receiving
C16_Witness ==
    \E k \in DOMAIN conns :
        /\ strict
        /\ conns[k].kind = "packet"
        /\ conns[k].log = << [line |-> NoBraceLine, err |-> "parse error"],
                              [line |-> ByNameLine, err |-> "observation error"],
                              [line |-> DeclaringLine, err |-> NoErr] >>
        /\ conns[k].pc = "scan"
        /\ collections[<<"a">>].values[makeTimeseriesKey(<<"a">>, (<<"l">> :> <<"1">>))].value = 1

\* what the three lines of series a{l="1"} are expected to add up to when they
\* are applied in the order sent: the by-name and the textual line count only
\* once the declaring line has created the family
RECURSIVE SentSum(_, _, _)
SentSum(lines, declared, sum) ==
    IF lines = << >> THEN [declared |-> declared, sum |-> sum]
    ELSE IF Head(lines) = DeclaringLine THEN SentSum(Tail(lines), TRUE, sum + 1)
    ELSE IF Head(lines) = ByNameLine /\ declared THEN SentSum(Tail(lines), declared, sum + 2)
    ELSE IF Head(lines) = TextLine /\ declared THEN SentSum(Tail(lines), declared, sum + 4)
    ELSE SentSum(Tail(lines), declared, sum)

SeriesA == makeTimeseriesKey(<<"a">>, (<<"l">> :> <<"1">>))

\* C17: a stream connection's lines are applied in the order they were sent:
\* the lines handled so far are a prefix of the lines sent and counter
\* a{l="1"} holds what the declaring, by-name and textual lines among them add
\* up to in that order; when the handler has returned at the end of its input
\* every line sent has been handled, and a scrape taken then shows that sum.
C17_AppliedInOrder ==
    \A k \in DOMAIN conns :
        conns[k].kind = "stream" =>
            LET e == SentSum(LogLines(k), FALSE, 0)
            IN  /\ LogLines(k) \o conns[k].input = conns[k].sent
                /\ conns[k].end = "eof" => LogLines(k) = conns[k].sent
                /\ e.declared <=> <<"a">> \in DOMAIN collections
                /\ e.declared =>
                      /\ DOMAIN collections[<<"a">>].values = {SeriesA}
                      /\ collections[<<"a">>].values[SeriesA].value = e.sum
                /\ (e.declared /\ conns[k].end = "eof" /\ last.op = "scrape") =>
                      \E i \in 1..Len(last.doc) :
                          last.doc[i] = Line("f", <<"a">>, "",
                                             renderLabels((<<"l">> :> <<"1">>)), e.sum)

\* the three lines of TestSocketWrites were sent, the input ended, the handler
\* returned, and the scrape shows a{l="1"} 7
C17_Witness ==
    \E k \in DOMAIN conns :
        /\ conns[k].kind = "stream"
        /\ conns[k].sent = <<DeclaringLine, ByNameLine, TextLine>>
        /\ conns[k].end = "eof"
        /\ last.op = "scrape"
        /\ Len(last.doc) >= 3
        /\ last.doc[1] = Line("HELP", <<"a">>, "x", << >>, 0)
        /\ last.doc[2] = Line("TYPE", <<"a">>, "counter", << >>, 0)
        /\ last.doc[3] = Line("f", <<"a">>, "", renderLabels((<<"l">> :> <<"1">>)), 7)

-----------------------------------------------------------------------------
(* The two wire formats *)

\* the lines that carry observation (n, ls, ParseValue): the textual line, the
\* structured line and, for the empty list, the structured line without labels
FormsOf(n, ls) ==
    {TextualForm(n, ls, ParseValue), StructuredForm(n, ls, ParseValue)}
    \cup (IF ls = << >> THEN {StructuredFormNoLabels(n, ParseValue)} ELSE {})

\* the step handled a line of (n, ls) without error, and handling any other
\* form of (n, ls) instead resolves to the same series and gives the same
\* result and registry
SameEffect(k, n, ls) ==
    /\ StepErr(k) = NoErr
    /\ \A y \in FormsOf(n, ls) :
          /\ handleLine(collections, y) = [err |-> NoErr, name |-> n, cs |-> collections']
          /\ observationTimeseriesKey(parseLine(y).o)
               = observationTimeseriesKey(parseLine(StepLine(k)).o)

\* no label value of the list holds a comma or a space
TextualCarries(ls) ==
    \A i \in 1..Len(ls) : \A c \in 1..Len(ls[i].v) : ls[i].v[c] \notin {",", " "}

PairSet(ls) == {ls[i] : i \in 1..Len(ls)}

\* C19: two observations with the same family name and the same set of label
\* pairs resolve to the same series whatever order the pairs were written in:
\* when a line with the pairs k="2", l="1" in either order is handled, it is
\* accepted, and every accepted line of the same name whose label list has the
\* same set of pairs resolves to the same timeseries key and would have left
\* the same registry.
C19_LabelOrderIrrelevant ==
    [][\A k \in DOMAIN conns, n \in ParseNames, ls1 \in ParseLabelLists :
          (LineStep(k) /\ StepLine(k) \in FormsOf(n, ls1)) =>
              /\ ls1 \in {OrderedLabels, ReversedLabels} => StepErr(k) = NoErr
              /\ StepErr(k) = NoErr =>
                    \A ls2 \in ParseLabelLists :
                        PairSet(ls1) = PairSet(ls2) =>
                            \A y \in FormsOf(n, ls2) :
                                parseLine(y).err = NoErr =>
                                    /\ observationTimeseriesKey(parseLine(y).o)
                                         = observationTimeseriesKey(parseLine(StepLine(k)).o)
                                    /\ handleLine(collections, y).cs = collections']_vars

\* the connection handled the two textual lines of c that differ in the order
\* of their label pairs, and one series holds both values
C19_Witness ==
    \E k \in DOMAIN conns :
        /\ conns[k].log
             = << [line |-> TextualForm(CounterName, OrderedLabels, ParseValue),
                   err |-> NoErr],
                  [line |-> TextualForm(CounterName, ReversedLabels, ParseValue),
                   err |-> NoErr] >>
        /\ Cardinality(DOMAIN collections[CounterName].values) = 2
        /\ \E key \in DOMAIN collections[CounterName].values :
              collections[CounterName].values[key].value = 2 * ParseValue

-----------------------------------------------------------------------------
(* Order of the scrape document *)

\* the HELP line that opens the family block line i is in
HeaderIndex(d, i) ==
    CHOOSE h \in 1..i : d[h].kind = "HELP" /\ \A j \in (h + 1)..i : d[j].kind # "HELP"

\* the lines that stand for one rendered series each: the sample line of a
\* counter or gauge, the _sum line of a histogram
SeriesLines(d) == {i \in 1..Len(d) : d[i].kind = "f"}

\* the key of the series of line i: family name, a space, the label text
KeyOfLine(d, i) == d[HeaderIndex(d, i)].name \o <<" ">> \o d[i].labels

\* C20: in every scrape document the families appear in ascending order of
\* their names and, within one family, the series appear in ascending order of
\* their keys (bytewise), whatever the order in which the observe calls
\* created them.
C20_DocumentSorted ==
    last.op = "scrape" =>
        LET d == last.doc
        IN  /\ d # << >> => d[1].kind = "HELP"
            /\ \A i \in 1..Len(d), j \in 1..Len(d) :
                  (i < j /\ d[i].kind = "HELP" /\ d[j].kind = "HELP")
                      => StrLess(d[i].name, d[j].name)
            /\ \A i \in SeriesLines(d), j \in SeriesLines(d) :
                  (i < j /\ HeaderIndex(d, i) = HeaderIndex(d, j))
                      => StrLess(KeyOfLine(d, i), KeyOfLine(d, j))

\* a scrape document with two families, one of them with two rendered series
C20_Witness ==
    /\ last.op = "scrape"
    /\ Cardinality({i \in 1..Len(last.doc) : last.doc[i].kind = "HELP"}) = 2
    /\ \E i \in SeriesLines(last.doc), j \in SeriesLines(last.doc) :
          i < j /\ HeaderIndex(last.doc, i) = HeaderIndex(last.doc, j)

-----------------------------------------------------------------------------
(* Scraping twice *)

\* a step that is one call of ServeHTTP
IsScrapeStep == last'.op \in {"scrape", "rescrape"} /\ last'.op # last.op

\* C21: a scrape leaves the registry as it found it, and a scrape that follows
\* a scrape with no observe in between returns the same document, line for line.
C21_ScrapeIdempotent ==
    [][IsScrapeStep =>
          /\ collections' = collections
          /\ last.op \in {"scrape", "rescrape"} => last'.doc = last.doc]_vars

\* the second of two scrapes in a row has rendered a labelled histogram series
C21_Witness ==
    /\ last.op = "rescrape"
    /\ \E n \in DOMAIN collections : \E k \in DOMAIN collections[n].values :
          /\ collections[n].values[k].variant = "histogram"
          /\ collections[n].values[k].count > 0
          /\ collections[n].values[k].labels # NoLabels
          /\ \E i \in 1..Len(last.doc) :
                /\ last.doc[i].name = n \o BucketSuffix
                /\ last.doc[i].labels
                     = renderLabels((LeLabel :> InfLabel) @@ collections[n].values[k].labels)

-----------------------------------------------------------------------------
(* Lines the textual grammar does not admit *)

\* the line is in the textual form: its first byte that is not a space is not {
IsTextual(line) == TrimSpace(line) = << >> \/ Head(TrimSpace(line)) # "{"

\* the identifier of a textual line (what precedes its last space) and the value
\* token (what follows it)
Identifier(line) ==
    LET p == TrimSpace(line)
        x == LastIndexByte(p, " ")
    IN  IF x < 0 THEN p ELSE TrimSpace(SubSeq(p, 1, x))

TrailingToken(line) ==
    LET p == TrimSpace(line)
        x == LastIndexByte(p, " ")
    IN  SubSeq(p, x + 2, Len(p))

Blank(line) == TrimSpace(line) = << >>
NoOpeningBrace(line) == IndexByte(Identifier(line), "{") < 0
NoClosingBrace(line) ==
    Identifier(line) = << >> \/ Identifier(line)[Len(Identifier(line))] # "}"

\* the label list of an identifier with both braces: between the first { and the
\* closing }
LabelList(line) ==
    LET id == Identifier(line)
    IN  SubSeq(id, IndexByte(id, "{") + 2, Len(id) - 1)

SpaceInLabelList(line) ==
    /\ ~NoOpeningBrace(line) /\ ~NoClosingBrace(line)
    /\ \E i \in 1..Len(LabelList(line)) : LabelList(line)[i] = " "

WrappedInQuotes(v) == Len(v) >= 2 /\ v[1] = "\"" /\ v[Len(v)] = "\""

UnwrappedLabelValue(line) ==
    /\ ~NoOpeningBrace(line) /\ ~NoClosingBrace(line)
    /\ LET pairs == Split(LabelList(line), ",")
       IN  \E i \in 1..Len(pairs) :
              /\ IndexByte(pairs[i], "=") >= 0
              /\ ~WrappedInQuotes(SubSeq(pairs[i], IndexByte(pairs[i], "=") + 2,
                                         Len(pairs[i])))

\* C22: a textual line that is empty or only spaces, has no opening brace, does
\* not end its identifier with a closing brace, has a space inside its label
\* list or has a label value that is not wrapped in double quotes is rejected
\* with a parse error, and the registry after it is the registry before it.
C22_MalformedTextualRejected ==
    [][\A k \in DOMAIN conns :
          (/\ LineStep(k)
           /\ IsTextual(StepLine(k))
           /\ \/ Blank(StepLine(k))
              \/ NoOpeningBrace(StepLine(k))
              \/ NoClosingBrace(StepLine(k))
              \/ SpaceInLabelList(StepLine(k))
              \/ UnwrappedLabelValue(StepLine(k)))
          => /\ StepErr(k) = "parse error"
             /\ collections' = collections]_vars

\* a finite number on the alphabet: an optional sign and a run of digits
FiniteNumber(t) ==
    LET body == IF t # << >> /\ Head(t) \in {"+", "-"} THEN Tail(t) ELSE t
    IN  body # << >> /\ \A i \in 1..Len(body) : IsDigit(body[i])

\* C23: a textual line whose trailing token is not a finite number (a word, an
\* infinity, NaN) is rejected with a parse error and nothing is applied.
C23_FiniteValueOnly ==
    [][\A k \in DOMAIN conns :
          (/\ LineStep(k)
           /\ IsTextual(StepLine(k))
           /\ ~FiniteNumber(TrailingToken(StepLine(k))))
          => /\ StepErr(k) = "parse error"
             /\ collections' = collections]_vars

\* C24: a structured line preceded by whitespace is decoded by the structured
\* decoder: it yields the observation, and has the effect, of the same line
\* without the leading whitespace.
C24_DecoderByFirstNonSpace ==
    [][\A k \in DOMAIN conns :
          (/\ LineStep(k)
           /\ StepLine(k) # << >>
           /\ IsSpace(Head(StepLine(k)))
           /\ ~IsTextual(StepLine(k)))
          => /\ parseLine(StepLine(k)) = parseLine(TrimLeft(StepLine(k)))
             /\ StepErr(k) = handleLine(collections, TrimLeft(StepLine(k))).err
             /\ collections' = handleLine(collections, TrimLeft(StepLine(k))).cs]_vars

-----------------------------------------------------------------------------
(* The registry only grows *)

\* C28: across every step a family that exists still exists, a series that
\* exists still exists, and a touched series is still touched.
C28_OnlyGrows ==
    [][\A n \in DOMAIN collections :
          /\ n \in DOMAIN collections'
          /\ \A k \in DOMAIN collections[n].values :
                /\ k \in DOMAIN collections'[n].values
                /\ valueTouched(collections[n].values[k])
                      => valueTouched(collections'[n].values[k])]_vars

\* a declaration has just been applied to a series that was touched before it
C28_Witness ==
    /\ last.op = "observe" /\ last.err = NoErr /\ ~HasValue(last.o)
    /\ SeriesId(last.o) \in DOMAIN applied
    /\ valueTouched(collections[last.o.Name].values[observationTimeseriesKey(last.o)])

-----------------------------------------------------------------------------
(* Homogeneous families *)

BucketMaxes(h) == [i \in 1..Len(h.buckets) |-> h.buckets[i].max]

\* C29: every series of a family has the variant named by the family's kind,
\* and every histogram series has exactly the family's bucket boundaries.
C29_Homogeneous ==
    \A n \in DOMAIN collections :
       \A k \in DOMAIN collections[n].values :
          LET c == collections[n]
              v == c.values[k]
          IN  /\ v.variant = c.typ
              /\ c.typ = "histogram" => BucketMaxes(v) = c.buckets

\* the second of two observations has created the second series of a histogram
\* family, and it carried another kind and other buckets than the family has
C29_Witness ==
    /\ nobs = 2
    /\ last.op = "observe" /\ last.err = NoErr
    /\ last.o.Name \in DOMAIN collections
    /\ collections[last.o.Name].typ = "histogram"
    /\ Cardinality(DOMAIN collections[last.o.Name].values) = 2
    /\ last.o.Type \in {"counter", "gauge"}
    /\ last.o.Buckets # collections[last.o.Name].buckets

-----------------------------------------------------------------------------
(* One connection's input and the other connections *)

LabelledSeries == makeTimeseriesKey(CounterName, (<<"l">> :> <<"1">>))

\* the lines of a connection that its handler is to apply: every valid line
\* sent, in strict mode those before the connection's first other line
RECURSIVE ToApply(_, _)
ToApply(lines, stopAtOther) ==
    IF lines = << >> THEN 0
    ELSE IF Head(lines) = LabelledLine THEN 1 + ToApply(Tail(lines), stopAtOther)
    ELSE IF stopAtOther THEN 0
    ELSE ToApply(Tail(lines), stopAtOther)

RECURSIVE SumOver(_, _)
SumOver(S, f) ==
    IF S = {} THEN 0
    ELSE LET k == CHOOSE k \in S : TRUE IN f[k] + SumOver(S \ {k}, f)

CounterNow ==
    IF LabelledSeries \in DOMAIN collections[CounterName].values
    THEN collections[CounterName].values[LabelledSeries].value
    ELSE 0

Accepted(j) == Cardinality({i \in 1..Len(conns[j].log) : conns[j].log[i].err = NoErr})

Sends(j, line) == \E i \in 1..Len(conns[j].sent) : conns[j].sent[i] = line

\* C30: whatever the other connection sends, a connection whose own lines are
\* c{l="1"} 1 and c{l=1} 1 is never left waiting in a process that has stopped;
\* it is closed only at the end of its own input, with every line handled and
\* every valid line accepted, or in strict mode after a rejected line of its
\* own, with the valid lines before that one accepted; and the counter holds
\* the accepted lines of all connections.
C30_ConnectionsIndependent ==
    /\ \A j \in DOMAIN conns :
          ~Sends(j, EmptyValueLine) =>
             /\ conns[j].pc \in {"scan", "closed"}
             /\ conns[j].pc = "scan" => ~Crashed
             /\ conns[j].pc = "closed" =>
                   /\ Accepted(j) = ToApply(conns[j].sent, strict)
                   /\ \/ conns[j].end = "eof" /\ LogLines(j) = conns[j].sent
                      \/ /\ conns[j].end = "strict" /\ strict
                         /\ LogLines(j) # << >>
                         /\ LogLines(j)[Len(LogLines(j))] # LabelledLine
    /\ CounterNow = SumOver(DOMAIN conns, [j \in DOMAIN conns |-> Accepted(j)])

-----------------------------------------------------------------------------
(* Startup and shutdown *)

\* the first declaration of the list that names the family of declaration i
FirstOf(decls, i) ==
    decls[CHOOSE j \in 1..i :
              /\ decls[j].Name = decls[i].Name
              /\ \A h \in 1..(j - 1) : decls[h].Name # decls[i].Name]

\* a declaration is refused when it is the first of its family and does not
\* carry a valid type and a help text
Refused(decls) ==
    \E i \in 1..Len(decls) : FirstOf(decls, i) = decls[i] /\ ~ValidMeta(decls[i])

\* a write transport or the scrape server is there, or has served
AnythingStarted ==
    \/ main.socketLn # "nil" \/ main.conn # "nil" \/ main.metricsLn # "nil"
    \/ main.fwd # "idle" \/ main.serve # "idle"
    \/ conns # << >>
    \/ last.op = "scrape"

\* C25: whenever a write transport or the scrape server has started, every
\* initial declaration has been applied, in the order given: each declared
\* family has the kind, help and buckets of the first declaration that names
\* it, and each declared series exists.  If a declaration is refused nothing
\* ever starts, and the process has stopped with no universe.
C25_DeclarationsFirst ==
    LET decls == main.decls
    IN  /\ AnythingStarted =>
              /\ ~Refused(decls)
              /\ \A i \in 1..Len(decls) :
                    /\ decls[i].Name \in DOMAIN collections
                    /\ LET c == collections[decls[i].Name]
                           f == FirstOf(decls, i)
                       IN  /\ c.typ = f.Type /\ c.help = f.Help /\ c.buckets = f.Buckets
                           /\ observationTimeseriesKey(decls[i]) \in DOMAIN c.values
        /\ Refused(decls) =>
              /\ ~AnythingStarted
              /\ main.pc \in {"newUniverse", "exit1"}
              /\ main.pc = "exit1" => collections = << >>

\* the scrape server has answered in a process whose two declarations name the
\* same family with different kinds
C25_Witness ==
    /\ last.op = "scrape"
    /\ Len(main.decls) = 2
    /\ main.decls[1].Name = main.decls[2].Name
    /\ main.decls[1].Type # main.decls[2].Type
    /\ collections[main.decls[1].Name].typ = main.decls[1].Type

\* C26: once the shutdown signal is received the process ends by the return of
\* the run group and in no other way; when the run group has called the
\* actors' interrupt functions the write listener or socket is closed, so that
\* no connection is accepted, and the scrape server has been asked to shut
\* down within one second.
C26_ShutdownCompletes ==
    main.signal =>
        /\ main.pc # "panic"
        /\ main.pc \in {"join", "exited"} =>
              /\ "open" \notin {main.socketLn, main.conn, main.metricsLn}
              /\ "closed" \in {main.socketLn, main.conn}
              /\ main.shutdown = 1

StreamSchemes == {"tcp", "tcp4", "tcp6", "unix", "unixpacket"}
PacketSchemes == {"udp", "udp4", "udp6", "unixgram"}

\* C27: with a stream scheme or a packet scheme and declarations that load,
\* the process neither exits nor panics; once the socket stage is passed a
\* stream scheme has a listener and a packet scheme has a packet socket.
C27_SchemesServed ==
    (main.scheme \in StreamSchemes \cup PacketSchemes /\ ~Refused(main.decls)) =>
        /\ main.pc \notin {"exit1", "panic"}
        /\ main.pc \notin {"newUniverse", "socket"} =>
              /\ main.scheme \in StreamSchemes => main.socketLn # "nil"
              /\ main.scheme \in PacketSchemes => main.conn # "nil"

-----------------------------------------------------------------------------
(* A value of zero *)

\* C31: an accepted observation that carries a value, the value 0 included,
\* leaves its series touched, whatever the variant; an observation without a
\* value leaves the series as touched or untouched as it was; and every scrape
\* shows the header and the lines of each touched series.
C31_ZeroTouches ==
    [][/\ (IsObserveStep /\ last'.err = NoErr) =>
            LET n == last'.o.Name
                k == observationTimeseriesKey(last'.o)
            IN  IF last'.o.Value # NilValue
                THEN valueTouched(collections'[n].values[k])
                ELSE valueTouched(collections'[n].values[k])
                       = valueTouched(collections[n].values[k])
       /\ last'.op = "scrape" =>
            \A n \in DOMAIN collections :
               \A k \in DOMAIN collections[n].values :
                  valueTouched(collections[n].values[k]) =>
                     /\ HasHeader(last'.doc, n)
                     /\ SeriesInDoc(last'.doc, collections[n].values[k])]_vars

\* a scrape shows the counter, the gauge and the histogram, each of which has
\* received nothing but the value 0
C31_Witness ==
    /\ last.op = "scrape"
    /\ \A n \in {CounterName, GaugeName, HistogramName} :
          /\ HasHeader(last.doc, n)
          /\ \A k \in DOMAIN collections[n].values :
                /\ SeriesInDoc(last.doc, collections[n].values[k])
                /\ Accumulator(collections[n].values[k])[1] = 0

-----------------------------------------------------------------------------
(* The text of a series in the document *)

SampleLines(d) == {i \in 1..Len(d) : d[i].kind \in {"f", "d"}}

RECURSIVE SumLens(_, _)
SumLens(S, f) ==
    IF S = {} THEN 0
    ELSE LET x == CHOOSE x \in S : TRUE IN f[x] + SumLens(S \ {x}, f)

TouchedSeries ==
    {id \in AllSeries : valueTouched(collections[id[1]].values[id[2]])}

\* C32: a scrape document holds, for every touched series, each line of the
\* series' renderText as renderText produced it, so each label as
\* name="value" with the value as supplied; and it holds no other sample line.
C32_RenderTextVerbatim ==
    last.op = "scrape" =>
        /\ \A id \in TouchedSeries :
              LET v    == collections[id[1]].values[id[2]]
                  text == valueRenderText(v)
              IN  \A j \in 1..Len(text) :
                     /\ \E i \in SampleLines(last.doc) : last.doc[i] = text[j]
                     /\ \A key \in DOMAIN v.labels :
                           \E a, b \in 0..Len(text[j].labels) :
                              SubSeq(text[j].labels, a + 1, b)
                                 = key \o <<"=", "\"">> \o v.labels[key] \o <<"\"">>
        /\ Cardinality(SampleLines(last.doc))
              = SumLens(TouchedSeries,
                        [id \in TouchedSeries |->
                            Len(valueRenderText(collections[id[1]].values[id[2]]))])

-----------------------------------------------------------------------------
(* The observation passed to the textual decoder *)

\* C33: when prometheusUnmarshal returns an error the observation passed to it
\* is as it was before the call, field for field.
C33_ErrorLeavesObservation ==
    [][(last'.op = "unmarshal" /\ last'.err \notin {NoErr, Panic}) => last'.o = last.o]_vars

\* the decoder has cut a name from the line, has refused a label value after
\* that, and the observation of the caller had every field set
C33_Witness ==
    /\ last.op = "unmarshal"
    /\ last.err = "bad format: label value must be wrapped in quotes"
    /\ last.o.Name = GaugeName
    /\ last.o.Value = <<2>>
    /\ conns["call"].log[1].line = UnquotedLine

-----------------------------------------------------------------------------
(* A refused observation *)

\* C34: when Universe.observe returns an error (the line is refused with an
\* observation error) the registry after the call is the registry before it:
\* no family and no series has been added.
C34_ErrorLeavesRegistry ==
    [][\A k \in DOMAIN conns :
          (LineStep(k) /\ StepErr(k) = "observation error")
             => collections' = collections]_vars

-----------------------------------------------------------------------------
(* parseLine returns *)

\* C35: for every line handled, parseLine has returned an observation or an
\* error: no handler has stopped in a panic.
C35_ParseLineTotal ==
    \A k \in DOMAIN conns :
        /\ conns[k].pc # "panic"
        /\ \A i \in 1..Len(conns[k].log) : conns[k].log[i].err # Panic

-----------------------------------------------------------------------------
(* Series keys *)

\* C36: an accepted observation resolves to a series of its own family name
\* and its own label map: the series that holds it after the call has the
\* observation's name and, label for label, the observation's labels.
C36_KeysUnique ==
    [][(IsObserveStep /\ last'.err = NoErr) =>
          LET v == collections'[observationMetricName(last'.o)]
                       .values[observationTimeseriesKey(last'.o)]
          IN  v.n = last'.o.Name /\ v.labels = last'.o.Labels]_vars

-----------------------------------------------------------------------------
(* Bucket lines *)

\* the counts of the bucket lines of series v, in document order
BucketCounts(d, v) ==
    LET I == {i \in 1..Len(d) :
                 /\ d[i].kind = "d" /\ d[i].name = v.n \o BucketSuffix
                 /\ \E x \in {Sprint(v.buckets[b].max) : b \in 1..Len(v.buckets)}
                              \cup {InfLabel} :
                        d[i].labels = renderLabels((LeLabel :> x) @@ v.labels)}
    IN  [i \in I |-> d[i].num]

\* C37: in a scrape document the bucket lines of every touched histogram
\* series carry counts that do not decrease from the first bucket line to
\* the +Inf line, and none of them is greater than the series' count.
C37_BucketsMonotone ==
    last.op = "scrape" =>
        \A id \in TouchedSeries :
            LET v == collections[id[1]].values[id[2]]
            IN  v.variant = "histogram" =>
                   LET bc == BucketCounts(last.doc, v)
                   IN  /\ Cardinality(DOMAIN bc) = Len(v.buckets) + 1
                       /\ \A i, j \in DOMAIN bc : i < j => bc[i] <= bc[j]
                       /\ \A i \in DOMAIN bc : bc[i] <= v.count

-----------------------------------------------------------------------------
(* Frame of observe *)

\* C38: an accepted observe on series k of family n leaves every other
\* series of the registry (in family n and in every other family) as it
\* was, accumulators and touched flag included, and leaves the kind, help
\* and buckets of every family as they were.
C38_ObserveFrame ==
    [][(IsObserveStep /\ last'.err = NoErr) =>
          LET n == observationMetricName(last'.o)
              k == observationTimeseriesKey(last'.o)
          IN  /\ \A id \in AllSeries :
                    id # <<n, k>> =>
                       /\ id[1] \in DOMAIN collections'
                       /\ id[2] \in DOMAIN collections'[id[1]].values
                       /\ collections'[id[1]].values[id[2]]
                             = collections[id[1]].values[id[2]]
              /\ \A f \in DOMAIN collections :
                    /\ f \in DOMAIN collections'
                    /\ collections'[f].typ = collections[f].typ
                    /\ collections'[f].help = collections[f].help
                    /\ collections'[f].buckets = collections[f].buckets]_vars

\* a value has just been added to a series while another series of its
\* family and a series of another family hold values
C38_Witness ==
    /\ last.op = "observe" /\ last.err = NoErr /\ HasValue(last.o)
    /\ LET n == observationMetricName(last.o)
           k == observationTimeseriesKey(last.o)
       IN  /\ \E id \in TouchedSeries : id[1] = n /\ id[2] # k
           /\ \E id \in TouchedSeries : id[1] # n

-----------------------------------------------------------------------------
(* The non-strict handler and its input *)

\* C39: a non-strict stream handler that has stopped has handled every line
\* it was sent, in the order sent, and stopped at the end of its input.
C39_StopsOnlyAtEnd ==
    \A k \in DOMAIN conns :
        (~strict /\ conns[k].kind = "stream" /\ conns[k].pc = "closed") =>
            /\ conns[k].end = "eof"
            /\ conns[k].input = << >>
            /\ [i \in DOMAIN conns[k].log |-> conns[k].log[i].line] = conns[k].sent

-----------------------------------------------------------------------------
(* The registry lock is released *)

\* C40: under fair scheduling whoever holds the registry lock gives it up,
\* every observe call that has started returns, accepted or refused, every
\* scrape that holds the lock writes its document, and the lock is never
\* left with a holder that is not inside its call.
C40_LockReleased ==
    /\ \A w \in Workers : (mtx = w) ~> (mtx = "free")
    /\ \A w \in Observers : (pc[w] = "lock") ~> (pc[w] = "idle")
    /\ \A s \in Scrapers : (pc[s] = "s_render") ~> (pc[s] = "idle")
    /\ [](mtx \in Workers => pc[mtx] \notin {"idle", "lock", "s_write"})

\* a refused observe has returned and released the lock, and an observer
\* waits for the lock while a scrape holds it
C40_Witness ==
    /\ \E i \in DOMAIN doneLog : doneLog[i].err # NoErr
    /\ \E w \in Observers : pc[w] = "lock" /\ mtx \in Scrapers

====
